---------------------------- MODULE Spec2Model ----------------------------
(***************************************************************************)
(* A model of nicolai86/terraform-tools: doc-checker (catalog extraction,  *)
(* documentation classifier and index, cross-reference check) and          *)
(* schema-checker (the rule engine over schema attribute literals).        *)
(*                                                                         *)
(* Go strings are TLA+ strings; TLC evaluates Len, \o and SubSeq on them.  *)
(* Syntax trees are records tagged by a "node" field named after the       *)
(* go/ast type they stand for.  An unchecked type assertion, an index out  *)
(* of range or a nil dereference is a panic: the operators return a        *)
(* "panic" flag and the run that called them stops.                        *)
(***************************************************************************)
EXTENDS Integers, Sequences, FiniteSets, TLC

VARIABLES
    pIn,        \* catalog extraction alone: the provider.go handed to it
    pRes,       \* catalog extraction alone: what parseProviderDefinition returned
    cIn,        \* classifier alone: the fragment handed to it
    cRes,       \* classifier alone: what classifyDoc returned
    cRe,        \* classifier alone: what classifyDoc returned for the re-split name
    pc,         \* doc-checker run: where main is
    providerGo, \* doc-checker run: the provider.go of the tree
    prov,       \* doc-checker run: the catalog (provider)
    docs,       \* doc-checker run: the documentation index
    log,        \* doc-checker run: the diagnostics printed so far
    loaded,     \* doc-checker run: the fragments the website walk has visited
    walked,     \* doc-checker run: the files the source walk has visited
    sPc,        \* schema-checker run: where the program is
    sOut,       \* schema-checker run: the violations printed so far
    sWalked,    \* schema-checker run: the files the walk has visited
    vIn,        \* cross-reference check alone: the file, catalog and index handed to it
    vRes        \* cross-reference check alone: what verifyAttributes printed

provVars == <<pIn, pRes>>
clsVars == <<cIn, cRes, cRe>>
runVars == <<pc, providerGo, prov, docs, log, loaded, walked>>
schVars == <<sPc, sOut, sWalked>>
verVars == <<vIn, vRes>>
vars == <<pIn, pRes, cIn, cRes, cRe, pc, providerGo, prov, docs, log, loaded, walked,
          sPc, sOut, sWalked, vIn, vRes>>

None == [node |-> "None"]

-----------------------------------------------------------------------------
(* strings *)

HasPrefix(s, p) == Len(s) >= Len(p) /\ SubSeq(s, 1, Len(p)) = p

HasSuffix(s, p) == Len(s) >= Len(p) /\ SubSeq(s, Len(s) - Len(p) + 1, Len(s)) = p

\* the 1-based start positions at which sub occurs in s
Occurrences(s, sub) ==
    {i \in 1..(Len(s) - Len(sub) + 1) : SubSeq(s, i, i + Len(sub) - 1) = sub}

Contains(s, sub) ==
    \E i \in 1..(Len(s) - Len(sub) + 1) : SubSeq(s, i, i + Len(sub) - 1) = sub

\* strings.LastIndex, 1-based; 0 when sub does not occur
LastIndex(s, sub) ==
    LET occ == Occurrences(s, sub)
    IN IF occ = {} THEN 0 ELSE CHOOSE i \in occ : \A j \in occ : j <= i

\* strings.Index, 1-based; 0 when sub does not occur
RECURSIVE IndexFrom(_, _, _)
IndexFrom(s, sub, i) ==
    IF i > Len(s) - Len(sub) + 1 THEN 0
    ELSE IF SubSeq(s, i, i + Len(sub) - 1) = sub THEN i
    ELSE IndexFrom(s, sub, i + 1)

Index(s, sub) == IndexFrom(s, sub, 1)

\* s[k:] of Go for a 0-based k
From(s, k) == SubSeq(s, k + 1, Len(s))

\* strings.Replace(s, old, new, -1) for a non-empty old
RECURSIVE Replace(_, _, _)
Replace(s, old, new) ==
    IF Len(s) < Len(old) THEN s
    ELSE IF HasPrefix(s, old) THEN new \o Replace(From(s, Len(old)), old, new)
    ELSE SubSeq(s, 1, 1) \o Replace(From(s, 1), old, new)

\* strings.Split(s, sep) for a non-empty sep
RECURSIVE Split(_, _)
Split(s, sep) ==
    LET i == Index(s, sep)
    IN IF i = 0 THEN <<s>>
       ELSE <<SubSeq(s, 1, i - 1)>> \o Split(From(s, i - 1 + Len(sep)), sep)

Quote == "\""
Backtick == SubSeq("`'", 1, 1)

\* val[1 : len(val)-1] panics when len(val) < 2
decodeStringPanics(val) == Len(val) < 2

decodeString(val) == SubSeq(val, 2, Len(val) - 1)

-----------------------------------------------------------------------------
(* syntax trees (go/ast) *)

\* Obj: the declaration the parser resolved the identifier to, None when unresolved
IdentObj(name, obj) == [node |-> "Ident", Name |-> name, Obj |-> obj]
Ident(name) == IdentObj(name, None)
ValueSpec(values) == [node |-> "ValueSpec", Values |-> values]
BasicLit(value) == [node |-> "BasicLit", Value |-> value]
StringLit(s) == BasicLit(Quote \o s \o Quote)
CallExpr(fun) == [node |-> "CallExpr", Fun |-> fun]
SelectorExpr(x, sel) == [node |-> "SelectorExpr", X |-> x, Sel |-> sel]
StarExpr(x) == [node |-> "StarExpr", X |-> x]
UnaryExpr(x) == [node |-> "UnaryExpr", X |-> x]
CompositeLit(type, elts) == [node |-> "CompositeLit", Type |-> type, Elts |-> elts]
KeyValueExpr(line, key, value) ==
    [node |-> "KeyValueExpr", Line |-> line, Key |-> key, Value |-> value]
ReturnStmt(results) == [node |-> "ReturnStmt", Results |-> results]
BlockStmt(list) == [node |-> "BlockStmt", List |-> list]
ExprStmt(x) == [node |-> "ExprStmt", X |-> x]
GenDecl == [node |-> "GenDecl"]
\* results: the types of the result list (<<>> for Type.Results == nil);
\* body: the statements of Body.List
FuncDecl(name, results, body) ==
    [node |-> "FuncDecl", Name |-> name, Results |-> results, Body |-> body]
\* what parser.ParseFile returns: err # nil, or the declarations
File(path, parseErr, decls) ==
    [node |-> "File", Path |-> path, ParseErr |-> parseErr, Decls |-> decls]

SchemaType(sel) == StarExpr(SelectorExpr(Ident("schema"), sel))
MapType == [node |-> "MapType"]
ArrayType == [node |-> "ArrayType"]


-----------------------------------------------------------------------------
(* doc-checker: catalog extraction *)

\* a resourceDefinition
Def(name, fnc) == [name |-> name, fnc |-> fnc]

\* provider{}
EmptyProvider == [datasources |-> <<>>, resources |-> <<>>]

\* mapEntries with each resourceDefinition put in front of the list instead
\* of appended to it
RECURSIVE mapEntriesReversed(_)
mapEntriesReversed(elts) ==
    IF elts = <<>> THEN [panic |-> FALSE, list |-> <<>>]
    ELSE LET e == Head(elts)
             panics == \/ e.node # "KeyValueExpr"
                       \/ e.Key.node # "BasicLit"
                       \/ decodeStringPanics(e.Key.Value)
                       \/ e.Value.node # "CallExpr"
                       \/ e.Value.Fun.node # "Ident"
         IN IF panics THEN [panic |-> TRUE, list |-> <<>>]
            ELSE LET rest == mapEntriesReversed(Tail(elts))
                 IN [panic |-> rest.panic,
                     list |-> rest.list
                              \o <<Def(decodeString(e.Key.Value), e.Value.Fun.Name)>>]

\* the loop over the entries of one ResourcesMap / DataSourcesMap literal:
\* the resourceDefinitions appended, in order, until an assertion panics
RECURSIVE mapEntries(_)
mapEntries(elts) ==
    IF elts = <<>> THEN [panic |-> FALSE, list |-> <<>>]
    ELSE LET e == Head(elts)
             panics == \/ e.node # "KeyValueExpr"
                       \/ e.Key.node # "BasicLit"
                       \/ decodeStringPanics(e.Key.Value)
                       \/ e.Value.node # "CallExpr"
                       \/ e.Value.Fun.node # "Ident"
         IN IF panics THEN [panic |-> TRUE, list |-> <<>>]
            ELSE LET rest == mapEntries(Tail(elts))
                 IN [panic |-> rest.panic,
                     list |-> <<Def(decodeString(e.Key.Value), e.Value.Fun.Name)>>
                              \o rest.list]

\* the loop over the fields of the returned literal, p being the catalog so far
RECURSIVE providerElts(_, _)
providerElts(elts, p) ==
    IF elts = <<>> THEN [panic |-> FALSE, p |-> p]
    ELSE LET elt == Head(elts)
         IN IF elt.node # "KeyValueExpr" \/ elt.Key.node # "Ident"
            THEN [panic |-> TRUE, p |-> p]
            ELSE IF elt.Key.Name \in {"ResourcesMap", "DataSourcesMap"}
            THEN IF elt.Value.node # "CompositeLit"
                 THEN [panic |-> TRUE, p |-> p]
                 ELSE LET m == mapEntries(elt.Value.Elts)
                          q == IF elt.Key.Name = "ResourcesMap"
                               THEN [p EXCEPT !.resources = @ \o m.list]
                               ELSE [p EXCEPT !.datasources = @ \o m.list]
                      IN IF m.panic THEN [panic |-> TRUE, p |-> q]
                         ELSE providerElts(Tail(elts), q)
            ELSE providerElts(Tail(elts), p)

\* a providerStmts that passes over a return of another shape
RECURSIVE providerStmtsLenient(_, _)
providerStmtsLenient(stmts, p) ==
    IF stmts = <<>> THEN [panic |-> FALSE, p |-> p]
    ELSE LET stmt == Head(stmts)
         IN IF \/ stmt.node # "ReturnStmt"
               \/ stmt.Results = <<>>
               \/ stmt.Results[1].node # "UnaryExpr"
               \/ stmt.Results[1].X.node # "CompositeLit"
            THEN providerStmtsLenient(Tail(stmts), p)
            ELSE LET r == providerElts(stmt.Results[1].X.Elts, p)
                 IN IF r.panic THEN r ELSE providerStmtsLenient(Tail(stmts), r.p)

\* the loop over the top-level statements of Provider's body
RECURSIVE providerStmts(_, _)
providerStmts(stmts, p) ==
    IF stmts = <<>> THEN [panic |-> FALSE, p |-> p]
    ELSE LET stmt == Head(stmts)
         IN IF stmt.node # "ReturnStmt" THEN providerStmts(Tail(stmts), p)
            ELSE IF \/ stmt.Results = <<>>
                    \/ stmt.Results[1].node # "UnaryExpr"
                    \/ stmt.Results[1].X.node # "CompositeLit"
            THEN [panic |-> TRUE, p |-> p]
            ELSE LET r == providerElts(stmt.Results[1].X.Elts, p)
                 IN IF r.panic THEN r ELSE providerStmts(Tail(stmts), r.p)

\* the loop over the declarations of the file
RECURSIVE providerDecls(_, _)
providerDecls(decls, p) ==
    IF decls = <<>> THEN [panic |-> FALSE, p |-> p]
    ELSE LET v == Head(decls)
         IN IF v.node # "FuncDecl" \/ v.Name # "Provider"
            THEN providerDecls(Tail(decls), p)
            ELSE LET r == providerStmts(v.Body, p)
                 IN IF r.panic THEN r ELSE providerDecls(Tail(decls), r.p)

\* (provider, error), or a panic
parseProviderDefinition(f) ==
    IF f.ParseErr THEN [p |-> EmptyProvider, err |-> TRUE, panic |-> FALSE]
    ELSE LET r == providerDecls(f.Decls, EmptyProvider)
         IN [p |-> r.p, err |-> FALSE, panic |-> r.panic]

-----------------------------------------------------------------------------
(* doc-checker: documentation classifier *)

docTypeDatasource == 0
docTypeResource == 1

\* the tokens of bufio.Scanner with its default split function, ScanLines
ScanLines(content) ==
    LET parts == Split(content, "\n")
        lines == IF parts[Len(parts)] = "" THEN SubSeq(parts, 1, Len(parts) - 1)
                 ELSE parts
    IN [i \in 1..Len(lines) |->
           IF HasSuffix(lines[i], "\r") THEN SubSeq(lines[i], 1, Len(lines[i]) - 1)
           ELSE lines[i]]

\* a stripInfix that drops the keyword only where it leads the line
stripInfixPrefixOnly(line, keyword, n) ==
    IF HasPrefix(line, keyword) THEN From(line, n) ELSE line

\* the two ifs of a classified line: drop a leading keyword, then everything up
\* to and including the last keyword; n is the literal 11 resp. 9 of the code
stripInfix(line, keyword, n) ==
    LET l1 == IF HasPrefix(line, keyword) THEN From(line, n) ELSE line
    IN IF Contains(l1, keyword) THEN From(l1, (LastIndex(l1, keyword) - 1) + n) ELSE l1

\* drop a leading "docs-", then a leading "<provider>-"
stripPrefixes(providerName, line) ==
    LET l1 == IF HasPrefix(line, "docs-") THEN From(line, 5) ELSE line
    IN IF HasPrefix(l1, providerName \o "-") THEN From(l1, Len(providerName) + 1) ELSE l1

\* a normalize that leaves the hyphens in place
normalizeSpacesOnly(n) == Replace(n, " ", "_")

\* strings.Replace(strings.Replace(n, " ", "_", -1), "-", "_", -1)
normalize(n) == Replace(Replace(n, " ", "_"), "-", "_")

\* the scanner loop: n and t when it ends, or a panic
RECURSIVE classifyLines(_, _, _)
classifyLines(providerName, path, lines) ==
    IF lines = <<>> THEN [n |-> "", t |-> docTypeDatasource, panic |-> FALSE]
    ELSE IF ~Contains(Head(lines), "sidebar_current")
    THEN classifyLines(providerName, path, Tail(lines))
    ELSE LET parts == Split(Head(lines), ": ")
         IN IF Len(parts) < 2 \/ Len(parts[2]) < 2
            THEN [n |-> "", t |-> docTypeDatasource, panic |-> TRUE]
            ELSE LET line == stripPrefixes(providerName,
                                           SubSeq(parts[2], 2, Len(parts[2]) - 1))
                 IN IF \/ Contains(line, "datasource") \/ Contains(line, "data-source")
                       \/ Contains(path, "/d/") \/ Contains(path, "data_source")
                    THEN [n |-> stripInfix(line, "datasource-", 11),
                          t |-> docTypeDatasource, panic |-> FALSE]
                    ELSE IF Contains(line, "resource") \/ Contains(path, "/r/")
                    THEN [n |-> stripInfix(line, "resource-", 9),
                          t |-> docTypeResource, panic |-> FALSE]
                    ELSE classifyLines(providerName, path, Tail(lines))

\* a classifyDoc that does not give up on an empty n
classifyDocKeepsEmpty(providerName, path, content) ==
    LET r == classifyLines(providerName, path, ScanLines(content))
    IN IF r.panic THEN [n |-> "", t |-> r.t, err |-> FALSE, panic |-> TRUE, suffix |-> ""]
       ELSE [n |-> providerName \o "_" \o normalize(r.n), t |-> r.t,
             err |-> FALSE, panic |-> FALSE, suffix |-> r.n]

\* (n, t, err), or a panic; suffix records the n of lines 125 and 137, before
\* line 144 turns it into the canonical name
classifyDoc(providerName, path, content) ==
    LET r == classifyLines(providerName, path, ScanLines(content))
    IN IF r.panic THEN [n |-> "", t |-> r.t, err |-> FALSE, panic |-> TRUE, suffix |-> ""]
       ELSE IF r.n = "" THEN [n |-> "", t |-> r.t, err |-> TRUE, panic |-> FALSE, suffix |-> ""]
       ELSE [n |-> providerName \o "_" \o normalize(r.n), t |-> r.t,
             err |-> FALSE, panic |-> FALSE, suffix |-> r.n]

-----------------------------------------------------------------------------
(* provider.go files *)

MaxEntries == 2

\* the sequences over S of length at most n
SeqsUpTo(S, n) == UNION {[1..k -> S] : k \in 0..n}

Names == {"acme_widget", "acme_region"}

CatalogDefs ==
    {Def("acme_widget", "resourceWidget"),
     Def("acme_region", "dataSourceRegion"),
     Def("acme_region", "resourceWidget")}

ProviderShapes ==
    {"ok", "parseError", "noProvider", "nestedReturn", "twoReturns", "multiValue",
     "notAddressOf", "returnsIdent", "mapNotLiteral", "keyNotString", "valueNotCall"}

\* a provider.go: the entries of its two maps, which of the two fields comes
\* first in the literal, and the shape of the registration declaration
ProviderInputs ==
    [shape : ProviderShapes,
     res : SeqsUpTo(CatalogDefs, MaxEntries),
     ds : SeqsUpTo(CatalogDefs, MaxEntries),
     resFirst : BOOLEAN]

\* "name": fnc(),
EntryLit(shape, i, d) ==
    KeyValueExpr(i,
                 IF shape = "keyNotString" THEN Ident("nameConst") ELSE StringLit(d.name),
                 IF shape = "valueNotCall" THEN Ident(d.fnc) ELSE CallExpr(Ident(d.fnc)))

\* map[string]*schema.Resource{ ... }
MapLit(shape, defs) ==
    IF shape = "mapNotLiteral" THEN CallExpr(Ident("resources"))
    ELSE CompositeLit(MapType, [i \in 1..Len(defs) |-> EntryLit(shape, i, defs[i])])

\* &schema.Provider{Schema: ..., ResourcesMap: ..., DataSourcesMap: ..., ConfigureFunc: ...}
ProviderLit(in) ==
    LET r == KeyValueExpr(10, Ident("ResourcesMap"), MapLit(in.shape, in.res))
        d == KeyValueExpr(20, Ident("DataSourcesMap"), MapLit(in.shape, in.ds))
    IN CompositeLit(SelectorExpr(Ident("schema"), "Provider"),
                    <<KeyValueExpr(5, Ident("Schema"), CompositeLit(MapType, <<>>))>>
                    \o (IF in.resFirst THEN <<r, d>> ELSE <<d, r>>)
                    \o <<KeyValueExpr(30, Ident("ConfigureFunc"), Ident("providerConfigure"))>>)

ProviderBody(in) ==
    LET lit == ProviderLit(in)
        ret == ReturnStmt(<<UnaryExpr(lit)>>)
    IN CASE in.shape = "nestedReturn" -> <<BlockStmt(<<ret>>)>>
         [] in.shape = "twoReturns" -> <<ret, ret>>
         [] in.shape = "multiValue" -> <<ReturnStmt(<<UnaryExpr(lit), Ident("nil")>>)>>
         [] in.shape = "notAddressOf" -> <<ReturnStmt(<<lit>>)>>
         [] in.shape = "returnsIdent" -> <<ExprStmt(Ident("p")), ReturnStmt(<<Ident("p")>>)>>
         [] OTHER -> <<ret>>

ProviderFile(in) ==
    File("provider.go", in.shape = "parseError",
         <<GenDecl,
           FuncDecl(IF in.shape = "noProvider" THEN "New" ELSE "Provider",
                    <<SelectorExpr(Ident("terraform"), "ResourceProvider")>>,
                    ProviderBody(in)),
           FuncDecl("providerConfigure", <<Ident("interface"), Ident("error")>>,
                    <<ReturnStmt(<<Ident("nil"), Ident("nil")>>)>>)>>)

-----------------------------------------------------------------------------
(* catalog extraction alone *)

IdleProvider == pIn = None /\ pRes = None
IdleClassify == cIn = None /\ cRes = None /\ cRe = None
IdleRun ==
    /\ pc = "idle" /\ providerGo = None /\ prov = None /\ docs = None
    /\ log = <<>> /\ loaded = <<>> /\ walked = <<>>
IdleSchema == sPc = "idle" /\ sOut = <<>> /\ sWalked = <<>>
IdleVerify == vIn = None /\ vRes = None

InitProvider ==
    /\ pIn \in ProviderInputs
    /\ pRes = None
    /\ IdleClassify /\ IdleRun /\ IdleSchema /\ IdleVerify

ParseProvider ==
    /\ pRes = None
    /\ pRes' = parseProviderDefinition(ProviderFile(pIn))
    /\ UNCHANGED <<pIn, clsVars, runVars, schVars, verVars>>

NextProvider == ParseProvider

SpecProvider == InitProvider /\ [][NextProvider]_vars

\* C1: over a registration literal with N ResourcesMap and M DataSourcesMap
\* entries, parseProviderDefinition returns N resources and M datasources
\* (N+M in all), each (declared name, constructor) pair in the list of its
\* own kind and in the order of the map literal.
C1_CatalogPartitionedInOrder ==
    (pRes # None /\ pIn.shape = "ok") =>
        /\ ~pRes.panic /\ ~pRes.err
        /\ Len(pRes.p.resources) + Len(pRes.p.datasources) = Len(pIn.res) + Len(pIn.ds)
        /\ Len(pRes.p.resources) = Len(pIn.res)
        /\ Len(pRes.p.datasources) = Len(pIn.ds)
        /\ \A i \in 1..Len(pIn.res) : pRes.p.resources[i] = pIn.res[i]
        /\ \A i \in 1..Len(pIn.ds) : pRes.p.datasources[i] = pIn.ds[i]

C1_Witness ==
    /\ pRes # None /\ pIn.shape = "ok"
    /\ Len(pIn.res) = 2 /\ Len(pIn.ds) = 1
    /\ pIn.res[1] # pIn.res[2]
    /\ pIn.ds[1] \notin {pIn.res[1], pIn.res[2]}
    /\ ~pIn.resFirst
    /\ Len(pRes.p.resources) = 2

-----------------------------------------------------------------------------
(* documentation fragments *)

MaxSegs == 3

\* the -provider-name flag
providerName == "acme"
providerPath == "acme"

ValuePrefixes == {"", "docs-", "acme-", "docs-acme-"}

ValueSegs == {"datasource-", "data-source-", "resource-", "datasource", "acme-", "ip", "a b"}

DocPaths ==
    {"website/docs/d/ip.html.markdown",
     "website/docs/r/ip.html.markdown",
     "website/docs/data_source_ip.md",
     "website/docs/ip.html.md"}

\* single: one marker line; none: no marker line; second: the marker line
\* follows another one whose value names no kind; noSeparator, short: a
\* marker line without ": ", resp. with less than two characters after it
FragmentShapes == {"single", "none", "second", "noSeparator", "short"}

FragmentInputs ==
    [shape : {"single"}, prefix : ValuePrefixes,
     body : SeqsUpTo(ValueSegs, MaxSegs), path : DocPaths]
    \cup
    [shape : FragmentShapes \ {"single"}, prefix : ValuePrefixes,
     body : SeqsUpTo(ValueSegs, 1), path : DocPaths]

RECURSIVE Concat(_)
Concat(ss) == IF ss = <<>> THEN "" ELSE Head(ss) \o Concat(Tail(ss))

\* the front-matter value of a fragment
ValueOf(in) == in.prefix \o Concat(in.body)

MarkerLine(value) == "sidebar_current: " \o Quote \o value \o Quote \o "\n"

FrontMatter(markers) ==
    "---\nlayout: " \o Quote \o "acme" \o Quote \o "\n" \o markers
    \o "description: |-\n  Manages it.\n---\n\n# acme\n"

\* the bytes of a fragment
ContentOf(in) ==
    CASE in.shape = "single" -> FrontMatter(MarkerLine(ValueOf(in)))
      [] in.shape = "none" -> FrontMatter("page_title: " \o Quote \o ValueOf(in) \o Quote \o "\n")
      [] in.shape = "second" ->
            FrontMatter(MarkerLine("docs-acme-index") \o MarkerLine(ValueOf(in)))
      [] in.shape = "noSeparator" ->
            FrontMatter("sidebar_current:" \o Quote \o ValueOf(in) \o Quote \o "\n")
      [] in.shape = "short" -> FrontMatter("sidebar_current: " \o Quote \o "\n")

-----------------------------------------------------------------------------
(* the classifier alone *)

InitClassify ==
    /\ cIn \in FragmentInputs
    /\ cRes = None
    /\ cRe = None
    /\ IdleProvider /\ IdleRun /\ IdleSchema /\ IdleVerify

Classify ==
    /\ cRes = None
    /\ cRes' = classifyDoc(providerName, cIn.path, ContentOf(cIn))
    /\ UNCHANGED <<cIn, cRe, provVars, runVars, schVars, verVars>>

\* the canonical name split at the provider prefix, its suffix classified again
\* as the front-matter value of a fragment at the same path
ReSplit ==
    /\ cRes # None /\ ~cRes.err /\ ~cRes.panic
    /\ cRe = None
    /\ cRe' = classifyDoc(providerName, cIn.path,
                          FrontMatter(MarkerLine(From(cRes.n, Len(providerName) + 1))))
    /\ UNCHANGED <<cIn, cRes, provVars, runVars, schVars, verVars>>

NextClassify == Classify \/ ReSplit

SpecClassify == InitClassify /\ [][NextClassify]_vars

Classified == cRes # None /\ ~cRes.panic /\ ~cRes.err

\* the remaining text: the value without a leading
\* "docs-" and then without a leading "<provider>-"
Remaining(value) ==
    LET p == providerName \o "-"
        a == IF Len(value) >= 5 /\ SubSeq(value, 1, 5) = "docs-"
             THEN SubSeq(value, 6, Len(value)) ELSE value
    IN IF Len(a) >= Len(p) /\ SubSeq(a, 1, Len(p)) = p
       THEN SubSeq(a, Len(p) + 1, Len(a)) ELSE a

DatasourceNamed(in) ==
    \/ Contains(Remaining(ValueOf(in)), "datasource")
    \/ Contains(Remaining(ValueOf(in)), "data-source")
    \/ Contains(in.path, "/d/") \/ Contains(in.path, "data_source")

ResourceNamed(in) ==
    Contains(Remaining(ValueOf(in)), "resource") \/ Contains(in.path, "/r/")

\* the text after the last occurrence of infix, all of it when there is none
AfterLast(text, infix) ==
    LET occ == {i \in 1..(Len(text) - Len(infix) + 1) :
                   SubSeq(text, i, i + Len(infix) - 1) = infix}
    IN IF occ = {} THEN text
       ELSE SubSeq(text, (CHOOSE i \in occ : \A j \in occ : j <= i) + Len(infix), Len(text))

\* C8 as stated: of a fragment with one marker line, the remaining text or the
\* path names a datasource => classified Datasource, the suffix without
\* "datasource-"; else they name a resource => classified Resource, the suffix
\* without "resource-"; else classification fails.
C8_KindByKeywordOrHint ==
    (cRes # None /\ cIn.shape = "single") =>
        /\ ~cRes.panic
        /\ IF DatasourceNamed(cIn)
           THEN /\ ~cRes.err /\ cRes.t = docTypeDatasource
                /\ ~Contains(cRes.suffix, "datasource-")
           ELSE IF ResourceNamed(cIn)
           THEN /\ ~cRes.err /\ cRes.t = docTypeResource
                /\ ~Contains(cRes.suffix, "resource-")
           ELSE cRes.err

\* C8 as amended: the same three cases, a classification succeeding only when
\* the text left after the last "datasource-" (resp. "resource-") infix is not
\* empty; that text is the suffix, so the suffix never contains the infix.
C8_KindByKeywordOrHintNonEmpty ==
    (cRes # None /\ cIn.shape = "single") =>
        LET rem == Remaining(ValueOf(cIn))
            kind == IF DatasourceNamed(cIn) THEN docTypeDatasource ELSE docTypeResource
            infix == IF DatasourceNamed(cIn) THEN "datasource-" ELSE "resource-"
        IN /\ ~cRes.panic
           /\ IF (DatasourceNamed(cIn) \/ ResourceNamed(cIn)) /\ AfterLast(rem, infix) # ""
              THEN /\ ~cRes.err /\ cRes.t = kind
                   /\ cRes.suffix = AfterLast(rem, infix)
                   /\ ~Contains(cRes.suffix, infix)
              ELSE cRes.err

C8_Witness ==
    /\ Classified /\ cIn.shape = "single"
    /\ cRes.t = docTypeDatasource
    /\ Contains(cIn.path, "/r/")
    /\ cIn.prefix = "docs-acme-"
    /\ Contains(Remaining(ValueOf(cIn)), "resource-datasource-")
    /\ cRes.suffix = "ip"

\* C9: a canonical name is <providerPrefix>_<suffix>, the suffix being the
\* stripped value with every space and every hyphen turned into an underscore:
\* it holds no space, no hyphen, and is not empty.
C9_CanonicalNameForm ==
    Classified =>
        /\ HasPrefix(cRes.n, providerName \o "_")
        /\ LET suf == From(cRes.n, Len(providerName) + 1)
           IN /\ suf # ""
              /\ ~Contains(suf, " ") /\ ~Contains(suf, "-")
              /\ Len(suf) = Len(cRes.suffix)
              /\ \A i \in 1..Len(suf) :
                    SubSeq(suf, i, i) = IF SubSeq(cRes.suffix, i, i) \in {" ", "-"} THEN "_"
                                        ELSE SubSeq(cRes.suffix, i, i)

C9_Witness ==
    /\ Classified
    /\ Contains(cRes.suffix, " ") /\ Contains(cRes.suffix, "-")
    /\ cRes.n = "acme_acme_a_b"

\* the path carries the directory hint of kind t
PathHints(t, path) ==
    IF t = docTypeDatasource THEN Contains(path, "/d/") \/ Contains(path, "data_source")
    ELSE Contains(path, "/r/")

\* C10 as stated: re-splitting the canonical name by the classifier's rules
\* gives the kind and the suffix of the first classification.
C10_RoundTrip ==
    cRe # None => ~cRe.panic /\ ~cRe.err /\ cRe.t = cRes.t /\ cRe.n = cRes.n

\* C10 as amended: re-splitting succeeds with the same kind whenever the path
\* carries the directory hint of that kind, and whenever it succeeds it gives
\* the same suffix, hence the same canonical name.
C10_RoundTripUnderPathHint ==
    cRe # None =>
        /\ ~cRe.panic
        /\ ~cRe.err => cRe.n = cRes.n
        /\ PathHints(cRes.t, cIn.path) => ~cRe.err /\ cRe.t = cRes.t

C10_Witness ==
    /\ cRe # None /\ ~cRe.err
    /\ cRes.t = docTypeResource /\ cRe.t = docTypeResource
    /\ Contains(cIn.path, "/r/")
    /\ Contains(ValueOf(cIn), "resource-")
    /\ Contains(cRes.suffix, "-")
    /\ cRe.n = cRes.n

-----------------------------------------------------------------------------
(* doc-checker: documentation index and cross-reference check *)

\* a Go map from names to fragment contents; the index of a missing key is nil
EmptyMap == [k \in {} |-> ""]
Get(m, k) == IF k \in DOMAIN m THEN m[k] ELSE ""
\* a Put that forgets the entries made before
PutAlone(m, k, v) == [x \in {k} |-> v]
Put(m, k, v) == [x \in DOMAIN m \cup {k} |-> IF x = k THEN v ELSE m[x]]

EmptyDocumentation == [Datasources |-> EmptyMap, Resources |-> EmptyMap]

Extensions == {"md", "markdown", "html.md", "html.markdown"}

candidate(path) == \E ext \in Extensions : HasSuffix(path, ext)

\* a callback that leaves a fragment indexed before in its place
loadDocumentationVisitKeepsFirst(d, path, docset) ==
    IF ~candidate(path) THEN [panic |-> FALSE, d |-> d]
    ELSE LET c == classifyDoc(providerName, path, docset) IN
         IF c.panic THEN [panic |-> TRUE, d |-> d]
         ELSE IF c.err THEN [panic |-> FALSE, d |-> d]
         ELSE IF c.t = docTypeDatasource
              THEN [panic |-> FALSE,
                    d |-> [d EXCEPT !.Datasources =
                               IF c.n \in DOMAIN @ THEN @ ELSE Put(@, c.n, docset)]]
              ELSE [panic |-> FALSE,
                    d |-> [d EXCEPT !.Resources =
                               IF c.n \in DOMAIN @ THEN @ ELSE Put(@, c.n, docset)]]

\* the callback loadDocumentation hands to filepath.Walk, for one readable file
loadDocumentationVisit(d, path, docset) ==
    IF ~candidate(path) THEN [panic |-> FALSE, d |-> d]
    ELSE LET c == classifyDoc(providerName, path, docset) IN
         IF c.panic THEN [panic |-> TRUE, d |-> d]
         ELSE IF c.err THEN [panic |-> FALSE, d |-> d]
         ELSE IF c.t = docTypeDatasource
              THEN [panic |-> FALSE,
                    d |-> [d EXCEPT !.Datasources = Put(d.Datasources, c.n, docset)]]
              ELSE [panic |-> FALSE,
                    d |-> [d EXCEPT !.Resources = Put(d.Resources, c.n, docset)]]

\* log.Printf("Missing %q in docs of %q"); schemaType and fnc are not printed,
\* they record which lookup result and which function the line was printed for
Missing(markup, schemaName, schemaType, fnc) ==
    [msg |-> "Missing", markup |-> markup, schemaName |-> schemaName,
     schemaType |-> schemaType, fnc |-> fnc]

FailedToParse(path) == [msg |-> "Failed to parse", path |-> path]

expectedMarkupBullet(val) == "* " \o Backtick \o decodeString(val) \o Backtick

expectedMarkup(val) == Backtick \o decodeString(val) \o Backtick

\* the literal an attribute key stands for (lines 285-293)
keyLiteral(key) ==
    IF key.node = "BasicLit" THEN [panic |-> FALSE, value |-> key.Value]
    ELSE IF key.node # "Ident" THEN [panic |-> TRUE, value |-> ""]
    ELSE IF key.Obj = None THEN [panic |-> TRUE, value |-> ""]
    ELSE IF key.Obj.node # "ValueSpec" THEN [panic |-> TRUE, value |-> ""]
    ELSE IF key.Obj.Values = <<>> THEN [panic |-> TRUE, value |-> ""]
    ELSE IF key.Obj.Values[1].node # "BasicLit" THEN [panic |-> TRUE, value |-> ""]
    ELSE [panic |-> FALSE, value |-> key.Obj.Values[1].Value]

\* the found, schemaType, schemaName and docset of lines 227-246 after one loop
RECURSIVE lookupIn(_, _, _, _, _)
lookupIn(defs, fnc, t, m, acc) ==
    IF defs = <<>> THEN acc
    ELSE lookupIn(Tail(defs), fnc, t, m,
                  IF Head(defs).fnc = fnc
                  THEN [found |-> TRUE, schemaType |-> t, schemaName |-> Head(defs).name,
                        docset |-> Get(m, Head(defs).name)]
                  ELSE acc)

NotFound == [found |-> FALSE, schemaType |-> docTypeDatasource, schemaName |-> "", docset |-> ""]

\* a lookup that keeps the first entry registering fnc, datasources first
lookupFirst(p, d, fnc) ==
    LET rev(q) == [i \in 1..Len(q) |-> q[Len(q) + 1 - i]]
    IN lookupIn(rev(p.datasources), fnc, docTypeDatasource, d.Datasources,
                lookupIn(rev(p.resources), fnc, docTypeResource, d.Resources, NotFound))

lookup(p, d, fnc) ==
    lookupIn(p.resources, fnc, docTypeResource, d.Resources,
             lookupIn(p.datasources, fnc, docTypeDatasource, d.Datasources, NotFound))

\* a verifySchema that goes on into the sub-schema of an Elem property
RECURSIVE verifySchemaDeep(_, _, _, _)
verifySchemaDeep(elts, l, fnc, out) ==
    IF elts = <<>> THEN [panic |-> FALSE, log |-> out]
    ELSE LET eltt == Head(elts) IN
         IF eltt.node # "KeyValueExpr" THEN verifySchemaDeep(Tail(elts), l, fnc, out)
         ELSE LET k == keyLiteral(eltt.Key)
                  elem == IF eltt.Value.node # "CompositeLit" THEN <<>>
                          ELSE SelectSeq(eltt.Value.Elts,
                                         LAMBDA e : e.node = "KeyValueExpr"
                                                    /\ e.Key.node = "Ident"
                                                    /\ e.Key.Name = "Elem")
                  sub == IF elem = <<>> THEN <<>> ELSE elem[1].Value.X.Elts[1].Value.Elts
              IN
              IF k.panic \/ decodeStringPanics(k.value) THEN [panic |-> TRUE, log |-> out]
              ELSE LET markup == expectedMarkup(k.value) IN
                   verifySchemaDeep(sub \o Tail(elts), l, fnc,
                                    IF ~Contains(l.docset, markup)
                                    THEN Append(out, Missing(markup, l.schemaName,
                                                             l.schemaType, fnc))
                                    ELSE out)

\* the loop over the entries of the Schema map literal (lines 276-301)
RECURSIVE verifySchema(_, _, _, _)
verifySchema(elts, l, fnc, out) ==
    IF elts = <<>> THEN [panic |-> FALSE, log |-> out]
    ELSE LET eltt == Head(elts) IN
         IF eltt.node # "KeyValueExpr" THEN verifySchema(Tail(elts), l, fnc, out)
         ELSE LET k == keyLiteral(eltt.Key) IN
              IF k.panic \/ decodeStringPanics(k.value) THEN [panic |-> TRUE, log |-> out]
              ELSE LET markup == expectedMarkup(k.value) IN
                   verifySchema(Tail(elts), l, fnc,
                                IF ~Contains(l.docset, markup)
                                THEN Append(out, Missing(markup, l.schemaName, l.schemaType, fnc))
                                ELSE out)

\* the loop over the fields of the returned literal (lines 261-302)
RECURSIVE verifyFields(_, _, _, _)
verifyFields(elts, l, fnc, out) ==
    IF elts = <<>> THEN [panic |-> FALSE, log |-> out]
    ELSE LET eltt == Head(elts) IN
         IF eltt.node # "KeyValueExpr" THEN verifyFields(Tail(elts), l, fnc, out)
         ELSE IF eltt.Key.node # "Ident" THEN [panic |-> TRUE, log |-> out]
         ELSE IF eltt.Key.Name # "Schema" THEN verifyFields(Tail(elts), l, fnc, out)
         ELSE IF eltt.Value.node # "CompositeLit" THEN verifyFields(Tail(elts), l, fnc, out)
         ELSE LET r == verifySchema(eltt.Value.Elts, l, fnc, out) IN
              IF r.panic THEN r ELSE verifyFields(Tail(elts), l, fnc, r.log)

\* a verifyDecl that takes every pointer to a type of package schema for the
\* result of a constructor
verifyDeclAnySchemaType(decl, p, d, out) ==
    LET skip == [panic |-> FALSE, log |-> out]
        crash == [panic |-> TRUE, log |-> out]
    IN IF decl.node # "FuncDecl" THEN skip
       ELSE IF Len(decl.Results) # 1 THEN skip
       ELSE IF decl.Results[1].node # "StarExpr" THEN skip
       ELSE IF decl.Results[1].X.node # "SelectorExpr" THEN skip
       ELSE IF decl.Results[1].X.X.node # "Ident" THEN crash
       ELSE IF decl.Results[1].X.X.Name # "schema" THEN skip
       ELSE LET l == lookup(p, d, decl.Name) IN
            IF ~l.found THEN skip
            ELSE IF decl.Body = <<>> THEN crash
            ELSE IF decl.Body[1].node # "ReturnStmt" THEN skip
            ELSE IF decl.Body[1].Results = <<>> THEN crash
            ELSE IF decl.Body[1].Results[1].node # "UnaryExpr" THEN crash
            ELSE IF decl.Body[1].Results[1].X.node # "CompositeLit" THEN crash
            ELSE verifyFields(decl.Body[1].Results[1].X.Elts, l, decl.Name, out)

\* one iteration of the loop over f.Decls (lines 202-303)
verifyDecl(decl, p, d, out) ==
    LET skip == [panic |-> FALSE, log |-> out]
        crash == [panic |-> TRUE, log |-> out]
    IN IF decl.node # "FuncDecl" THEN skip
       ELSE IF Len(decl.Results) # 1 THEN skip
       ELSE IF decl.Results[1].node # "StarExpr" THEN skip
       ELSE IF decl.Results[1].X.node # "SelectorExpr" THEN skip
       ELSE IF decl.Results[1].X.Sel # "Resource" THEN skip
       ELSE IF decl.Results[1].X.X.node # "Ident" THEN crash
       ELSE IF decl.Results[1].X.X.Name # "schema" THEN skip
       ELSE LET l == lookup(p, d, decl.Name) IN
            IF ~l.found THEN skip
            ELSE IF decl.Body = <<>> THEN crash
            ELSE IF decl.Body[1].node # "ReturnStmt" THEN skip
            ELSE IF decl.Body[1].Results = <<>> THEN crash
            ELSE IF decl.Body[1].Results[1].node # "UnaryExpr" THEN crash
            ELSE IF decl.Body[1].Results[1].X.node # "CompositeLit" THEN crash
            ELSE verifyFields(decl.Body[1].Results[1].X.Elts, l, decl.Name, out)

RECURSIVE verifyDecls(_, _, _, _)
verifyDecls(decls, p, d, out) ==
    IF decls = <<>> THEN [panic |-> FALSE, log |-> out]
    ELSE LET r == verifyDecl(Head(decls), p, d, out) IN
         IF r.panic THEN r ELSE verifyDecls(Tail(decls), p, d, r.log)

\* the diagnostics verifyAttributes prints for one file, and whether it panics
verifyAttributes(f, p, d) ==
    IF f.ParseErr THEN [panic |-> FALSE, log |-> <<FailedToParse(f.Path)>>]
    ELSE verifyDecls(f.Decls, p, d, <<>>)

\* the filter of the walk over the provider tree (lines 180-185)
eligible(path) == ~HasSuffix(path, "_test.go") /\ HasSuffix(path, ".go")

-----------------------------------------------------------------------------
(* a run of doc-checker: the trees it reads *)

\* fragments the website walk visits, source files the tree walk visits
MaxDocs == 2
MaxFiles == 2

\* the provider.go files of the runs
RunProviders ==
    {[shape |-> "ok", resFirst |-> TRUE,
      res |-> <<Def("acme_widget", "resourceWidget")>>,
      ds |-> <<Def("acme_region", "dataSourceRegion")>>],
     [shape |-> "ok", resFirst |-> TRUE,
      res |-> <<Def("acme_widget", "resourceWidget")>>,
      ds |-> <<Def("acme_region", "resourceWidget")>>],
     [shape |-> "ok", resFirst |-> FALSE,
      res |-> <<Def("acme_widget", "resourceWidget"), Def("acme_region", "resourceWidget")>>,
      ds |-> <<>>],
     [shape |-> "parseError", resFirst |-> TRUE, res |-> <<>>, ds |-> <<>>],
     [shape |-> "notAddressOf", resFirst |-> TRUE,
      res |-> <<Def("acme_widget", "resourceWidget")>>, ds |-> <<>>]}
    \cup {[shape |-> s, resFirst |-> TRUE,
           res |-> <<Def("acme_widget", "resourceWidget")>>,
           ds |-> <<Def("acme_region", "dataSourceRegion")>>] :
              s \in {"multiValue", "returnsIdent", "mapNotLiteral", "keyNotString",
                     "valueNotCall", "noProvider", "nestedReturn", "twoReturns"}}

\* the values of -provider-name and -provider-path
Flags == {[name |-> providerName, path |-> providerPath],
          [name |-> "", path |-> providerPath]}

\* the argument reference of a fragment documenting attrs, as a bullet list
\* or in running text
RECURSIVE DocBody(_, _)
DocBody(attrs, bullets) ==
    IF attrs = <<>> THEN ""
    ELSE (IF bullets THEN "* " ELSE "The ") \o Backtick \o Head(attrs) \o Backtick
         \o " - (Optional)\n" \o DocBody(Tail(attrs), bullets)

\* marker is the shape of the sidebar_current line, one of FragmentShapes
Fragment(path, value, attrs, bullets) ==
    [path |-> path, marker |-> "single", value |-> value, attrs |-> attrs,
     bullets |-> bullets]

\* the files under website/
RunFragments ==
    {Fragment("website/docs/r/widget.html.markdown", "docs-acme-resource-widget",
              <<"name">>, TRUE),
     Fragment("website/docs/r/widget.md", "docs-acme-resource-widget",
              <<"name", "id">>, FALSE),
     Fragment("website/docs/d/region.html.markdown", "docs-acme-datasource-region",
              <<"name">>, TRUE),
     Fragment("website/docs/r/region.html.md", "docs-acme-resource-region",
              <<"id">>, TRUE),
     Fragment("website/docs/index.html.markdown", "docs-acme-index",
              <<"name", "id">>, TRUE),
     Fragment("website/acme.erb", "docs-acme-resource-widget", <<"name", "id">>, TRUE),
     [Fragment("website/docs/r/gadget.html.markdown", "docs-acme-resource-gadget",
               <<"name">>, TRUE) EXCEPT !.marker = "noSeparator"]}

FragmentContent(d) ==
    ContentOf([shape |-> d.marker, prefix |-> d.value, body |-> <<>>])
    \o DocBody(d.attrs, d.bullets)

AttrLists == {<<>>, <<"name", "id">>, <<"nam", "name">>}

\* a file of the tree: fn is the function it declares first, shape says in
\* what it departs from a constructor with string literal keys, attrs are the
\* keys of the schema map literal, next is a constructor declared after fn
Source(path, fn, shape, attrs) ==
    [path |-> path, fn |-> fn, shape |-> shape, attrs |-> attrs, next |-> ""]

ProviderGoPath == "acme/provider.go"

\* the first key of the schema map literal is an identifier
KeyShapes == {"keyConst", "keyUndeclared", "keyNoValue", "keyComputed"}

\* the result list of fn is not one *schema.Resource
ResultShapes ==
    {"noResults", "twoResults", "nonPointer", "unqualified", "otherType", "otherPackage"}

\* the body of fn is not one return of an address-of literal
BodyShapes == {"bodyNotReturn", "bodyReturnsCall"}

\* the text of the file is no Go: a syntax error, or the result type of fn
\* written *acme.schema.Resource, which the grammar of type names rules out
UnparsedShapes == {"parseError", "qualifiedTwice"}

\* the files under the provider path, provider.go among them
RunSources ==
    {Source("acme/resource_widget.go", "resourceWidget", "ok", a) : a \in AttrLists}
    \cup {Source("acme/data_source_region.go", "dataSourceRegion", "ok", a) : a \in AttrLists}
    \cup {Source("acme/resource_widget.go", "resourceWidget", sh, <<"name", "id">>) :
              sh \in {"keyUndeclared", "keyNoValue", "keyComputed", "bodyReturnsCall"}}
    \cup {Source("acme/resource_widget_test.go", "resourceWidget", "ok", <<"id">>),
          Source("acme/config.go", "configure", "parseError", <<>>),
          Source(ProviderGoPath, "Provider", "provider", <<>>)}

\* the key of the i-th entry of the schema map literal
AttributeKey(shape, i, name) ==
    IF i # 1 \/ shape \notin KeyShapes THEN StringLit(name)
    ELSE CASE shape = "keyConst" -> IdentObj(name \o "Key", ValueSpec(<<StringLit(name)>>))
           [] shape = "keyUndeclared" -> Ident(name \o "Key")
           [] shape = "keyNoValue" -> IdentObj(name \o "Key", ValueSpec(<<>>))
           [] shape = "keyComputed" ->
                 IdentObj(name \o "Key", ValueSpec(<<CallExpr(Ident("keyOf"))>>))

\* the attribute of the sub-schema of a "nested" file
NestedAttribute == "port"

\* "name": {Type: schema.TypeString, Optional: true},
AttributeLit(i, name) ==
    KeyValueExpr(i, StringLit(name),
                 CompositeLit(None,
                              <<KeyValueExpr(i, Ident("Type"),
                                             SelectorExpr(Ident("schema"), "TypeString")),
                                KeyValueExpr(i, Ident("Optional"), Ident("true"))>>))

\* the i-th entry of the schema map literal; in a "nested" file the first
\* one has Elem: &schema.Resource{Schema: map[string]*schema.Schema{"port": {...}}}
SchemaEntry(shape, i, name) ==
    LET lit == AttributeLit(i, name)
        elem == KeyValueExpr(i, Ident("Elem"),
                    UnaryExpr(CompositeLit(
                        SelectorExpr(Ident("schema"), "Resource"),
                        <<KeyValueExpr(i, Ident("Schema"),
                                       CompositeLit(MapType,
                                                    <<AttributeLit(i, NestedAttribute)>>))>>)))
    IN [lit EXCEPT !.Key = AttributeKey(shape, i, name),
                   !.Value.Elts = IF shape = "nested" /\ i = 1 THEN @ \o <<elem>> ELSE @]

\* &schema.Resource{Read: fnRead, Schema: map[string]*schema.Schema{...}}
ResourceLit(shape, fn, attrs) ==
    UnaryExpr(CompositeLit(
        SelectorExpr(Ident("schema"), "Resource"),
        <<KeyValueExpr(1, Ident("Read"), Ident(fn \o "Read")),
          KeyValueExpr(2, Ident("Schema"),
                       CompositeLit(MapType,
                                    [i \in 1..Len(attrs) |->
                                        SchemaEntry(shape, i, attrs[i])]))>>))

\* the result list of fn
ResultsOf(shape) ==
    CASE shape = "noResults" -> <<>>
      [] shape = "twoResults" -> <<SchemaType("Resource"), Ident("error")>>
      [] shape = "nonPointer" -> <<SelectorExpr(Ident("schema"), "Resource")>>
      [] shape = "unqualified" -> <<StarExpr(Ident("Resource"))>>
      [] shape = "otherType" -> <<SchemaType("Provider")>>
      [] shape = "otherPackage" -> <<StarExpr(SelectorExpr(Ident("helper"), "Resource"))>>
      [] OTHER -> <<SchemaType("Resource")>>

\* the statements of fn: return &schema.Resource{...}, or
\* log.Println(...); return &schema.Resource{...}, or return fnSchema()
BodyOf(shape, fn, attrs) ==
    CASE shape = "bodyNotReturn" ->
            <<ExprStmt(CallExpr(SelectorExpr(Ident("log"), "Println"))),
              ReturnStmt(<<ResourceLit(shape, fn, attrs)>>)>>
      [] shape = "bodyReturnsCall" -> <<ReturnStmt(<<CallExpr(Ident(fn \o "Schema"))>>)>>
      [] OTHER -> <<ReturnStmt(<<ResourceLit(shape, fn, attrs)>>)>>

\* func fn() *schema.Resource { return &schema.Resource{Read: fnRead, Schema: map...{...}} }
ResourceFunc(shape, fn, attrs) ==
    FuncDecl(fn, ResultsOf(shape), BodyOf(shape, fn, attrs))

\* the attribute of the constructor declared after fn
NextAttribute == "zone"

\* what parser.ParseFile returns for a file of the tree
SourceFile(d, pgo) ==
    IF d.shape = "provider" THEN ProviderFile(pgo)
    ELSE File(d.path, d.shape \in UnparsedShapes,
              <<GenDecl, ResourceFunc(d.shape, d.fn, d.attrs)>>
              \o (IF d.next = "" THEN <<>>
                  ELSE <<ResourceFunc("ok", d.next, <<NextAttribute>>)>>)
              \o <<FuncDecl(d.fn \o "Read", <<Ident("error")>>,
                            <<ReturnStmt(<<Ident("nil")>>)>>)>>)

-----------------------------------------------------------------------------
(* the cross-reference check alone *)

\* loadDocumentation over the files frags of the website tree, in that order
RECURSIVE loadDocumentation(_, _)
loadDocumentation(frags, d) ==
    IF frags = <<>> THEN [panic |-> FALSE, d |-> d]
    ELSE LET r == loadDocumentationVisit(d, Head(frags).path, FragmentContent(Head(frags)))
         IN IF r.panic THEN r ELSE loadDocumentation(Tail(frags), r.d)

\* the website trees: files of distinct paths in the order the walk meets them
Websites ==
    {w \in SeqsUpTo(RunFragments, MaxDocs) :
        \A i, j \in DOMAIN w : i # j => w[i].path # w[j].path}

\* the indexes loadDocumentation returns
VerifyIndexes ==
    {loadDocumentation(w, EmptyDocumentation).d :
        w \in {x \in Websites : ~loadDocumentation(x, EmptyDocumentation).panic}}

\* the catalogs parseProviderDefinition returns
VerifyCatalogs ==
    {parseProviderDefinition(ProviderFile(p)).p :
        p \in {x \in RunProviders : x.shape \in {"ok", "multiValue"}}}

\* the files verifyAttributes is given: resource_widget.go in every shape,
\* alone in the file or followed by the constructor of the region datasource
VerifySources ==
    {[Source("acme/resource_widget.go", "resourceWidget", sh, a) EXCEPT !.next = n] :
        sh \in {"ok", "nested"} \cup KeyShapes \cup ResultShapes \cup BodyShapes
                \cup UnparsedShapes,
        a \in AttrLists \ {<<>>},
        n \in {"", "dataSourceRegion"}}

InitVerify ==
    /\ vIn \in [file : VerifySources, prov : VerifyCatalogs, docs : VerifyIndexes]
    /\ vRes = None
    /\ IdleProvider /\ IdleClassify /\ IdleRun /\ IdleSchema

Verify ==
    /\ vRes = None
    /\ vRes' = verifyAttributes(SourceFile(vIn.file, None), vIn.prov, vIn.docs)
    /\ UNCHANGED <<vIn, provVars, clsVars, runVars, schVars>>

NextVerify == Verify

SpecVerify == InitVerify /\ [][NextVerify]_vars

-----------------------------------------------------------------------------
(* a run of doc-checker: main *)

Init ==
    /\ pc = "start"
    /\ providerGo \in RunProviders
    /\ prov = None
    /\ docs = None
    /\ log = <<>>
    /\ loaded = <<>>
    /\ walked = <<>>
    /\ IdleProvider /\ IdleClassify /\ IdleSchema /\ IdleVerify

\* flag.Parse to the end of parseProviderDefinition (lines 149-164)
MainStart ==
    /\ pc = "start"
    /\ \E fl \in Flags :
          IF fl.path = "" \/ fl.name = ""
          THEN pc' = "usage" /\ UNCHANGED prov
          ELSE LET r == parseProviderDefinition(ProviderFile(providerGo)) IN
               IF r.panic THEN pc' = "panic" /\ UNCHANGED prov
               ELSE IF r.err THEN pc' = "fatal" /\ UNCHANGED prov
               ELSE pc' = "docs" /\ prov' = r.p
    /\ docs' = IF pc' = "docs" THEN EmptyDocumentation ELSE docs
    /\ UNCHANGED <<providerGo, log, loaded, walked, provVars, clsVars, schVars, verVars>>

\* the website walk visits one more file (lines 60-92)
LoadDoc ==
    /\ pc = "docs"
    /\ Len(loaded) < MaxDocs
    /\ \E d \in RunFragments :
          /\ \A i \in DOMAIN loaded : loaded[i].path # d.path
          /\ LET r == loadDocumentationVisit(docs, d.path, FragmentContent(d)) IN
                /\ docs' = r.d
                /\ pc' = IF r.panic THEN "panic" ELSE pc
          /\ loaded' = Append(loaded, d)
    /\ UNCHANGED <<providerGo, prov, log, walked, provVars, clsVars, schVars, verVars>>

\* the website walk is over, loadDocumentation returns (lines 165-168)
LoadDone ==
    /\ pc = "docs"
    /\ pc' = "walk"
    /\ UNCHANGED <<providerGo, prov, docs, log, loaded, walked, provVars, clsVars, schVars, verVars>>

\* the tree walk visits one more file (lines 179-188)
VerifyFile ==
    /\ pc = "walk"
    /\ Len(walked) < MaxFiles
    /\ \E d \in RunSources :
          /\ \A i \in DOMAIN walked : walked[i].path # d.path
          /\ walked' = Append(walked, d)
          /\ IF ~eligible(d.path) THEN UNCHANGED <<pc, log>>
             ELSE LET r == verifyAttributes(SourceFile(d, providerGo), prov, docs) IN
                  /\ log' = log \o r.log
                  /\ pc' = IF r.panic THEN "panic" ELSE pc
    /\ UNCHANGED <<providerGo, prov, docs, loaded, provVars, clsVars, schVars, verVars>>

\* the tree walk is over, main returns (line 189)
WalkDone ==
    /\ pc = "walk"
    /\ pc' = "done"
    /\ UNCHANGED <<providerGo, prov, docs, log, loaded, walked, provVars, clsVars, schVars, verVars>>

Next == MainStart \/ LoadDoc \/ LoadDone \/ VerifyFile \/ WalkDone

Spec == Init /\ [][Next]_vars

\* main is one goroutine that runs until it returns, exits or panics, and the
\* two trees it walks are finite: main gets past its flags and the
\* registration declaration, and each walk that is not cut short comes to its end
FairSpec == Spec /\ WF_vars(MainStart) /\ WF_vars(LoadDone) /\ WF_vars(WalkDone)

-----------------------------------------------------------------------------
(* a run of doc-checker: catalog entries against the index *)

DocTypes == {docTypeDatasource, docTypeResource}

Entries(t) == IF t = docTypeDatasource THEN prov.datasources ELSE prov.resources

DocsOf(t) == IF t = docTypeDatasource THEN docs.Datasources ELSE docs.Resources

\* the index holds a fragment under the declared name of the entry
Documented(t, e) == e.name \in DOMAIN DocsOf(t)

\* the attribute-level lines printed for an entry
MissingLines(t, e) ==
    {j \in DOMAIN log : /\ log[j].msg = "Missing" /\ log[j].schemaName = e.name
                        /\ log[j].schemaType = t}

\* the lines of any other wording that name an entry
OtherLines(e) ==
    {j \in DOMAIN log : /\ log[j].msg \notin {"Missing", "Failed to parse"}
                        /\ log[j].schemaName = e.name}

\* C2: when the run is over, every catalog entry without a classified fragment
\* under its declared name has exactly one "fragment not found" line and no
\* attribute-level line.
C2_FragmentNotFoundOnce ==
    pc = "done" =>
        \A t \in DocTypes : \A i \in DOMAIN Entries(t) :
            ~Documented(t, Entries(t)[i]) =>
                /\ Cardinality(OtherLines(Entries(t)[i])) = 1
                /\ MissingLines(t, Entries(t)[i]) = {}

\* C3: when the run is over, every catalog entry without a documentation page
\* in the index is named by at least one diagnostic, also when no scanned file
\* holds its constructor.
C3_UndocumentedEntryReported ==
    pc = "done" =>
        \A t \in DocTypes : \A i \in DOMAIN Entries(t) :
            ~Documented(t, Entries(t)[i]) =>
                MissingLines(t, Entries(t)[i]) \cup OtherLines(Entries(t)[i]) # {}

\* the constructor functions whose schema the tree walk has extracted
Extracted ==
    {walked[j] : j \in {k \in DOMAIN walked :
                          eligible(walked[k].path) /\ walked[k].shape = "ok"}}

Reported(a, t, e, fnc) ==
    \E j \in MissingLines(t, e) :
        log[j].markup = Backtick \o a \o Backtick /\ log[j].fnc = fnc

InFragment(a, t, e) == Contains(DocsOf(t)[e.name], Backtick \o a \o Backtick)

\* the entry the check of a constructor function is made for: the last entry
\* registering it, a resource before any datasource (an earlier entry that
\* registers it under the same name is the same pair of name and constructor)
Selected(t, i) ==
    LET fnc == Entries(t)[i].fnc
        later == {k \in DOMAIN Entries(t) :
                    /\ k > i
                    /\ Entries(t)[k].fnc = fnc
                    /\ Entries(t)[k].name # Entries(t)[i].name}
    IN /\ later = {}
       /\ t = docTypeDatasource =>
              \A k \in DOMAIN prov.resources : prov.resources[k].fnc # fnc

\* C7 as stated: for every catalog entry with a matched fragment whose
\* constructor's schema is extracted, and every attribute of that schema, a
\* missing-in-docs line for the attribute and the entry is printed exactly
\* when the markup of the attribute is not a substring of the fragment.
C7_MissingIffNotInFragment ==
    pc \in {"walk", "done"} =>
        \A t \in DocTypes : \A i \in DOMAIN Entries(t) : \A d \in Extracted :
            (Documented(t, Entries(t)[i]) /\ d.fn = Entries(t)[i].fnc) =>
                \A k \in DOMAIN d.attrs :
                    Reported(d.attrs[k], t, Entries(t)[i], d.fn)
                        <=> ~InFragment(d.attrs[k], t, Entries(t)[i])

\* C7, for the entry the lookup selects: for every constructor function whose
\* schema is extracted and the catalog entry selected for it, when that entry
\* has a matched fragment, a missing-in-docs line for an attribute and the
\* entry is printed exactly when the markup of the attribute is not a
\* substring of the fragment; no attribute line is printed for another entry
\* registering the same constructor.
C7_MissingIffNotInFragmentOfSelected ==
    pc \in {"walk", "done"} =>
        \A t \in DocTypes : \A i \in DOMAIN Entries(t) : \A d \in Extracted :
            (Documented(t, Entries(t)[i]) /\ d.fn = Entries(t)[i].fnc) =>
                \A k \in DOMAIN d.attrs :
                    IF Selected(t, i)
                    THEN Reported(d.attrs[k], t, Entries(t)[i], d.fn)
                             <=> ~InFragment(d.attrs[k], t, Entries(t)[i])
                    ELSE ~Reported(d.attrs[k], t, Entries(t)[i], d.fn)

C7_Witness ==
    /\ pc = "done"
    /\ \E t \in DocTypes : \E i \in DOMAIN Entries(t) : \E d \in Extracted :
          /\ Documented(t, Entries(t)[i]) /\ d.fn = Entries(t)[i].fnc /\ Selected(t, i)
          /\ \E k \in DOMAIN d.attrs :
                Reported(d.attrs[k], t, Entries(t)[i], d.fn)
                /\ ~InFragment(d.attrs[k], t, Entries(t)[i])
          /\ \E k \in DOMAIN d.attrs :
                ~Reported(d.attrs[k], t, Entries(t)[i], d.fn)
                /\ InFragment(d.attrs[k], t, Entries(t)[i])

-----------------------------------------------------------------------------
(* schema-checker: the walk over a syntax tree and the rule engine *)

\* the children ast.Walk descends into, in its order; the nodes between a
\* FuncDecl and its result types and statements (FuncType, FieldList, Field,
\* BlockStmt) match no visitor and are not represented
Children(n) ==
    CASE n.node = "File" -> n.Decls
      [] n.node = "FuncDecl" -> <<Ident(n.Name)>> \o n.Results \o n.Body
      [] n.node = "ReturnStmt" -> n.Results
      [] n.node = "BlockStmt" -> n.List
      [] n.node = "ExprStmt" -> <<n.X>>
      [] n.node = "UnaryExpr" -> <<n.X>>
      [] n.node = "StarExpr" -> <<n.X>>
      [] n.node = "SelectorExpr" -> <<n.X, Ident(n.Sel)>>
      [] n.node = "CallExpr" -> <<n.Fun>>
      [] n.node = "CompositeLit" -> (IF n.Type = None THEN <<>> ELSE <<n.Type>>) \o n.Elts
      [] n.node = "KeyValueExpr" -> <<n.Key, n.Value>>
      [] OTHER -> <<>>

\* a printed violation: file:line message
Violation(file, line, msg) == [file |-> file, line |-> line, msg |-> msg]

\* what a walk has done so far: the violations printed, the names collected
WalkState(out, names, panic) == [out |-> out, names |-> names, panic |-> panic]

\* the visitors (schemaWalker closures); Stop is the nil ast.Visitor
Stop == [kind |-> "nil"]
Visitor(kind, file, schema) == [kind |-> kind, file |-> file, schema |-> schema]

RECURSIVE Walk(_, _, _)
RECURSIVE WalkList(_, _, _)
RECURSIVE Visit(_, _, _)

\* the result of a check: err = "" is a nil error
CheckResult(panic, err) == [panic |-> panic, err |-> err]

\* the casts elt.(*ast.KeyValueExpr).Key.(*ast.Ident) of the loops over def.Elts
BadProperty(def) ==
    \E i \in DOMAIN def.Elts :
        \/ def.Elts[i].node # "KeyValueExpr"
        \/ def.Elts[i].Key.node # "Ident"

checkDescriptionNonEmpty(attributeName, def, schema) ==
    IF BadProperty(def) THEN CheckResult(TRUE, "")
    ELSE IF \E i \in DOMAIN def.Elts :
                /\ def.Elts[i].Key.Name = "Description"
                /\ def.Elts[i].Value # StringLit("")
         THEN CheckResult(FALSE, "")
         ELSE CheckResult(FALSE, attributeName \o ": Missing Description attribute")

checkDescription(attributeName, def, schema) ==
    IF BadProperty(def) THEN CheckResult(TRUE, "")
    ELSE IF \E i \in DOMAIN def.Elts : def.Elts[i].Key.Name = "Description"
         THEN CheckResult(FALSE, "")
         ELSE CheckResult(FALSE, attributeName \o ": Missing Description attribute")

checkAttributeName(attributeName, def, schema) ==
    IF attributeName = "id"
    THEN CheckResult(FALSE, attributeName \o ": attribute name is reserved")
    ELSE CheckResult(FALSE, "")

\* the visitor collectAttributeNames walks a schema with
attributeCollectorDeep(node, st) ==
    IF node.node # "KeyValueExpr" THEN [v |-> Visitor("attributeCollector", "", None), st |-> st]
    ELSE IF node.Key.node # "BasicLit"
         THEN [v |-> Visitor("attributeCollector", "", None), st |-> st]
    ELSE IF decodeStringPanics(node.Key.Value)
         THEN [v |-> Stop, st |-> [st EXCEPT !.panic = TRUE]]
    ELSE [v |-> Visitor("attributeCollector", "", None),
          st |-> [st EXCEPT !.names = Append(@, decodeString(node.Key.Value))]]

attributeCollector(node, st) ==
    IF node.node # "KeyValueExpr" THEN [v |-> Visitor("attributeCollector", "", None), st |-> st]
    ELSE IF node.Key.node # "BasicLit" THEN [v |-> Stop, st |-> st]
    ELSE IF decodeStringPanics(node.Key.Value)
         THEN [v |-> Stop, st |-> [st EXCEPT !.panic = TRUE]]
    ELSE [v |-> Stop, st |-> [st EXCEPT !.names = Append(@, decodeString(node.Key.Value))]]

collectAttributeNames(schema) ==
    Walk(Visitor("attributeCollector", "", None), schema, WalkState(<<>>, <<>>, FALSE))

\* strings.Join
RECURSIVE Join(_, _)
Join(ss, sep) ==
    IF ss = <<>> THEN ""
    ELSE IF Len(ss) = 1 THEN ss[1]
    ELSE ss[1] \o sep \o Join(Tail(ss), sep)

\* the casts of lines 75-78 on the value of a ConflictsWith property
BadConflicts(value) ==
    \/ value.node # "CompositeLit"
    \/ \E i \in DOMAIN value.Elts :
          \/ value.Elts[i].node # "BasicLit"
          \/ decodeStringPanics(value.Elts[i].Value)

\* the conflicts of lines 67-79: the decoded elements of every ConflictsWith property
RECURSIVE conflictsOf(_)
conflictsOf(elts) ==
    IF elts = <<>> THEN <<>>
    ELSE IF Head(elts).Key.Name # "ConflictsWith" THEN conflictsOf(Tail(elts))
    ELSE [i \in DOMAIN Head(elts).Value.Elts |-> decodeString(Head(elts).Value.Elts[i].Value)]
         \o conflictsOf(Tail(elts))

\* a checkConflictsWith that returns at the first target it does not find
checkConflictsWithFirstOnly(attributeName, def, schema) ==
    IF BadProperty(def) THEN CheckResult(TRUE, "")
    ELSE IF \E i \in DOMAIN def.Elts :
                def.Elts[i].Key.Name = "ConflictsWith" /\ BadConflicts(def.Elts[i].Value)
         THEN CheckResult(TRUE, "")
    ELSE LET conflicts == conflictsOf(def.Elts) IN
         IF conflicts = <<>> THEN CheckResult(FALSE, "")
         ELSE LET c == collectAttributeNames(schema)
                  missing == SelectSeq(conflicts,
                                       LAMBDA t : \A k \in DOMAIN c.names : c.names[k] # t)
              IN IF c.panic THEN CheckResult(TRUE, "")
                 ELSE IF missing = <<>> THEN CheckResult(FALSE, "")
                 ELSE CheckResult(FALSE, attributeName \o ": conflict target " \o Quote
                                         \o missing[1] \o Quote \o " does not exist")

checkConflictsWith(attributeName, def, schema) ==
    IF BadProperty(def) THEN CheckResult(TRUE, "")
    ELSE IF \E i \in DOMAIN def.Elts :
                def.Elts[i].Key.Name = "ConflictsWith" /\ BadConflicts(def.Elts[i].Value)
         THEN CheckResult(TRUE, "")
    ELSE LET conflicts == conflictsOf(def.Elts) IN
         IF conflicts = <<>> THEN CheckResult(FALSE, "")
         ELSE LET c == collectAttributeNames(schema)
                  missing == SelectSeq(conflicts,
                                       LAMBDA t : \A k \in DOMAIN c.names : c.names[k] # t)
                  errors == [k \in DOMAIN missing |->
                                "conflict target " \o Quote \o missing[k] \o Quote
                                \o " does not exist"]
              IN IF c.panic THEN CheckResult(TRUE, "")
                 ELSE IF errors = <<>> THEN CheckResult(FALSE, "")
                 ELSE CheckResult(FALSE, attributeName \o ": " \o Join(errors, ", "))

\* the loop over checks (lines 160-165): the violations printed for one attribute
runChecks(v, node, st) ==
    LET name == node.Key.Value
        file == Replace(v.file, providerPath, "")
        d == checkDescription(name, node.Value, v.schema)
        n == checkAttributeName(name, node.Value, v.schema)
        c == checkConflictsWith(name, node.Value, v.schema)
        pd == IF d.err # "" THEN <<Violation(file, node.Line, d.err)>> ELSE <<>>
        pn == IF n.err # "" THEN <<Violation(file, node.Line, n.err)>> ELSE <<>>
        pcw == IF c.err # "" THEN <<Violation(file, node.Line, c.err)>> ELSE <<>>
    IN IF d.panic THEN [st EXCEPT !.panic = TRUE]
       ELSE IF n.panic THEN [st EXCEPT !.panic = TRUE, !.out = @ \o pd]
       ELSE IF c.panic THEN [st EXCEPT !.panic = TRUE, !.out = @ \o pd \o pn]
       ELSE [st EXCEPT !.out = @ \o pd \o pn \o pcw]

\* an attributeChecker that also opens the literal under an address-of
attributeCheckerAddressOf(v, node, st) ==
    IF node.node # "KeyValueExpr" THEN [v |-> v, st |-> st]
    ELSE IF node.Key.node # "BasicLit" THEN [v |-> Stop, st |-> st]
    ELSE IF node.Value.node = "UnaryExpr" /\ node.Value.X.node = "CompositeLit"
         THEN [v |-> v, st |-> runChecks(v, [node EXCEPT !.Value = node.Value.X], st)]
    ELSE IF node.Value.node # "CompositeLit" THEN [v |-> v, st |-> st]
    ELSE [v |-> v, st |-> runChecks(v, node, st)]

attributeChecker(v, node, st) ==
    IF node.node # "KeyValueExpr" THEN [v |-> v, st |-> st]
    ELSE IF node.Key.node # "BasicLit" THEN [v |-> Stop, st |-> st]
    ELSE IF node.Value.node # "CompositeLit" THEN [v |-> v, st |-> st]
    ELSE [v |-> v, st |-> runChecks(v, node, st)]

schemaChecker(v, node, st) ==
    IF node.node # "CompositeLit" THEN [v |-> v, st |-> st]
    ELSE IF node.Type = None THEN [v |-> v, st |-> st]
    ELSE [v |-> Visitor("attributeChecker", v.file, node), st |-> st]

schemaResourceChecker(v, node, st) ==
    IF node.node # "KeyValueExpr" THEN [v |-> v, st |-> st]
    ELSE IF node.Key.node # "Ident" \/ node.Key.Name # "Schema" THEN [v |-> v, st |-> st]
    ELSE [v |-> Visitor("schemaChecker", v.file, None), st |-> st]

schemaFinder(v, node, st) ==
    IF node.node # "FuncDecl" THEN [v |-> v, st |-> st]
    ELSE IF Len(node.Results) # 1 THEN [v |-> Stop, st |-> st]
    ELSE IF node.Results[1].node # "StarExpr" THEN [v |-> Stop, st |-> st]
    ELSE IF node.Results[1].X.node # "SelectorExpr" THEN [v |-> Stop, st |-> st]
    ELSE IF node.Results[1].X.Sel # "Resource" THEN [v |-> Stop, st |-> st]
    ELSE IF node.Results[1].X.X.node # "Ident"
         THEN [v |-> Stop, st |-> [st EXCEPT !.panic = TRUE]]
    ELSE IF node.Results[1].X.X.Name # "schema" THEN [v |-> Stop, st |-> st]
    ELSE [v |-> Visitor("schemaResourceChecker", v.file, None), st |-> st]

\* schemaWalker.Visit: the closure applied to the node
Visit(v, node, st) ==
    CASE v.kind = "schemaFinder" -> schemaFinder(v, node, st)
      [] v.kind = "schemaResourceChecker" -> schemaResourceChecker(v, node, st)
      [] v.kind = "schemaChecker" -> schemaChecker(v, node, st)
      [] v.kind = "attributeChecker" -> attributeChecker(v, node, st)
      [] v.kind = "attributeCollector" -> attributeCollector(node, st)

\* ast.Walk; a panic unwinds the walk
Walk(v, node, st) ==
    LET r == Visit(v, node, st) IN
    IF r.st.panic \/ r.v = Stop THEN r.st
    ELSE WalkList(r.v, Children(node), r.st)

WalkList(v, nodes, st) ==
    IF nodes = <<>> \/ st.panic THEN st
    ELSE WalkList(v, Tail(nodes), Walk(v, Head(nodes), st))

\* checkSchema: fatal on a parse error, else the violations printed for the file
checkSchema(f) ==
    IF f.ParseErr THEN [fatal |-> TRUE, panic |-> FALSE, out |-> <<>>]
    ELSE LET st == Walk(Visitor("schemaFinder", f.Path, None), f,
                        WalkState(<<>>, <<>>, FALSE))
         IN [fatal |-> FALSE, panic |-> st.panic, out |-> st.out]

-----------------------------------------------------------------------------
(* a run of schema-checker: the tree it reads *)

\* attributes of a schema map literal, files the walk visits
MaxAttrs == 2
MaxSchemaFiles == 2

\* form: "elided" for "k": {...}, "addr" for "k": &schema.Schema{...},
\* "identKey" for k: {...}, "positional" for "k": {schema.TypeString};
\* desc: the Description property; conflicts: the ConflictsWith targets;
\* nested: the attributes of an Elem sub-schema
Attr(name, form, desc, conflicts, nested) ==
    [name |-> name, form |-> form, desc |-> desc, conflicts |-> conflicts, nested |-> nested]

AttrPool ==
    {Attr("name", "elided", "none", <<>>, <<>>),
     Attr("name", "elided", "empty", <<>>, <<>>),
     Attr("name", "elided", "text", <<"id">>, <<>>),
     Attr("name", "elided", "text", <<"port", "zone">>, <<>>),
     Attr("id", "elided", "none", <<>>, <<>>),
     Attr("Id", "elided", "text", <<>>, <<>>),
     Attr("id", "addr", "none", <<>>, <<>>),
     Attr("port", "addr", "text", <<"name">>, <<>>),
     Attr("rule", "elided", "text", <<>>, <<"port">>),
     Attr("zone", "identKey", "none", <<>>, <<>>),
     Attr("tags", "positional", "none", <<>>, <<>>)}

SchemaSource(path, shape, attrs) == [path |-> path, shape |-> shape, attrs |-> attrs]

\* the files under the provider path
SchemaSources ==
    {SchemaSource("acme/resource_widget.go", "ok", a) : a \in SeqsUpTo(AttrPool, MaxAttrs)}
    \cup {SchemaSource("acme/schema_widget.go", "helperMap",
                       <<Attr("id", "elided", "none", <<>>, <<>>)>>),
          SchemaSource("acme/resource_widget_test.go", "ok",
                       <<Attr("id", "elided", "none", <<>>, <<>>)>>),
          SchemaSource("acme/config.go", "parseError", <<>>),
          SchemaSource("acme/README.md", "ok", <<>>)}

\* the line of the i-th attribute of the schema, of the j-th attribute nested in it
LineOf(i) == 10 * i
NestedLineOf(i, j) == 10 * i + j

\* a nested attribute: "k": {Type: schema.TypeInt},
NestedAttrLit(i, j, name) ==
    KeyValueExpr(NestedLineOf(i, j), StringLit(name),
                 CompositeLit(None,
                              <<KeyValueExpr(NestedLineOf(i, j), Ident("Type"),
                                             SelectorExpr(Ident("schema"), "TypeInt"))>>))

\* &schema.Resource{Schema: map[string]*schema.Schema{...}}
ElemLit(i, nested) ==
    UnaryExpr(CompositeLit(
        SelectorExpr(Ident("schema"), "Resource"),
        <<KeyValueExpr(LineOf(i), Ident("Schema"),
                       CompositeLit(MapType,
                                    [j \in DOMAIN nested |-> NestedAttrLit(i, j, nested[j])]))>>))

\* the properties of an attribute definition
PropertyLits(i, a) ==
    IF a.form = "positional" THEN <<SelectorExpr(Ident("schema"), "TypeString")>>
    ELSE <<KeyValueExpr(LineOf(i), Ident("Type"), SelectorExpr(Ident("schema"), "TypeString"))>>
         \o (CASE a.desc = "none" -> <<>>
               [] a.desc = "empty" ->
                     <<KeyValueExpr(LineOf(i), Ident("Description"), StringLit(""))>>
               [] a.desc = "text" ->
                     <<KeyValueExpr(LineOf(i), Ident("Description"), StringLit("The value."))>>)
         \o (IF a.conflicts = <<>> THEN <<>>
             ELSE <<KeyValueExpr(LineOf(i), Ident("ConflictsWith"),
                                 CompositeLit(ArrayType,
                                              [k \in DOMAIN a.conflicts |->
                                                  StringLit(a.conflicts[k])]))>>)
         \o (IF a.nested = <<>> THEN <<>>
             ELSE <<KeyValueExpr(LineOf(i), Ident("Elem"), ElemLit(i, a.nested))>>)

\* an entry of the schema map literal
SchemaAttrLit(i, a) ==
    KeyValueExpr(LineOf(i),
                 IF a.form = "identKey" THEN Ident(a.name \o "Key") ELSE StringLit(a.name),
                 IF a.form = "addr"
                 THEN UnaryExpr(CompositeLit(SelectorExpr(Ident("schema"), "Schema"),
                                             PropertyLits(i, a)))
                 ELSE CompositeLit(None, PropertyLits(i, a)))

SchemaMapLit(attrs) == CompositeLit(MapType, [i \in DOMAIN attrs |-> SchemaAttrLit(i, attrs[i])])

\* what parser.ParseFile returns for a file of the tree
SchemaFile(d) ==
    File(d.path, d.shape = "parseError",
         <<GenDecl,
           IF d.shape = "helperMap"
           THEN FuncDecl("widgetSchema", <<MapType>>, <<ReturnStmt(<<SchemaMapLit(d.attrs)>>)>>)
           ELSE FuncDecl("resourceWidget", <<SchemaType("Resource")>>,
                    <<ReturnStmt(<<UnaryExpr(CompositeLit(
                        SelectorExpr(Ident("schema"), "Resource"),
                        <<KeyValueExpr(1, Ident("Read"), Ident("resourceWidgetRead")),
                          KeyValueExpr(2, Ident("Schema"), SchemaMapLit(d.attrs))>>))>>)>>),
           FuncDecl("resourceWidgetRead", <<Ident("error")>>,
                    <<ReturnStmt(<<Ident("nil")>>)>>)>>)

-----------------------------------------------------------------------------
(* a run of schema-checker: init and main *)

InitSchema ==
    /\ sPc = "start"
    /\ sOut = <<>>
    /\ sWalked = <<>>
    /\ IdleProvider /\ IdleClassify /\ IdleRun /\ IdleVerify

\* init: flag.Parse and the usage exit (lines 245-254)
SchemaStart ==
    /\ sPc = "start"
    /\ \E path \in {"", providerPath} : sPc' = IF path = "" THEN "usage" ELSE "walk"
    /\ UNCHANGED <<sOut, sWalked, provVars, clsVars, runVars, verVars>>

\* the walk visits one more file (lines 257-266)
CheckFile ==
    /\ sPc = "walk"
    /\ Len(sWalked) < MaxSchemaFiles
    /\ \E d \in SchemaSources :
          /\ \A i \in DOMAIN sWalked : sWalked[i].path # d.path
          /\ sWalked' = Append(sWalked, d)
          /\ IF ~eligible(d.path) THEN UNCHANGED <<sPc, sOut>>
             ELSE LET r == checkSchema(SchemaFile(d)) IN
                  /\ sOut' = sOut \o r.out
                  /\ sPc' = IF r.fatal THEN "fatal" ELSE IF r.panic THEN "panic" ELSE sPc
    /\ UNCHANGED <<provVars, clsVars, runVars, verVars>>

\* the walk is over, main returns
SchemaDone ==
    /\ sPc = "walk"
    /\ sPc' = "done"
    /\ UNCHANGED <<sOut, sWalked, provVars, clsVars, runVars, verVars>>

NextSchema == SchemaStart \/ CheckFile \/ SchemaDone

SpecSchema == InitSchema /\ [][NextSchema]_vars

-----------------------------------------------------------------------------
(* a run of schema-checker: the rules against the attributes *)

\* the files whose schema map literal the walk has reached, the run still alive
Checked ==
    IF sPc \notin {"walk", "done"} THEN {}
    ELSE {sWalked[j] : j \in {k \in DOMAIN sWalked :
                                 eligible(sWalked[k].path) /\ sWalked[k].shape = "ok"}}

\* the attributes the rule engine evaluates: a string literal key and a
\* definition literal with elided type, directly in the schema map literal
Evaluated(a) == a.form = "elided"

PrintedAt(d, i) ==
    {k \in DOMAIN sOut : /\ sOut[k].file = Replace(d.path, providerPath, "")
                         /\ sOut[k].line = LineOf(i)}

ReservedPrinted(d, i) ==
    \E k \in PrintedAt(d, i) : HasSuffix(sOut[k].msg, ": attribute name is reserved")

DescriptionPrinted(d, i) ==
    \E k \in PrintedAt(d, i) : HasSuffix(sOut[k].msg, ": Missing Description attribute")

ConflictPrinted(d, i, t) ==
    \E k \in PrintedAt(d, i) :
        Contains(sOut[k].msg, "conflict target " \o Quote \o t \o Quote \o " does not exist")

\* C4: for every evaluated attribute, an "attribute name is reserved" violation
\* is printed exactly when the decoded name of the attribute is "id".
C4_ReservedIffNamedId ==
    \A d \in Checked : \A i \in DOMAIN d.attrs :
        Evaluated(d.attrs[i]) => (ReservedPrinted(d, i) <=> d.attrs[i].name = "id")

\* C5: for every evaluated attribute, a "Missing Description attribute"
\* violation is printed exactly when no property of its definition literal is
\* keyed Description, whatever the value of such a property.
C5_MissingDescriptionIffNoProperty ==
    \A d \in Checked : \A i \in DOMAIN d.attrs :
        Evaluated(d.attrs[i]) => (DescriptionPrinted(d, i) <=> d.attrs[i].desc = "none")

C5_Witness ==
    \E d \in Checked : \E i, j \in DOMAIN d.attrs :
        /\ Evaluated(d.attrs[i]) /\ d.attrs[i].desc = "empty" /\ ~DescriptionPrinted(d, i)
        /\ Evaluated(d.attrs[j]) /\ d.attrs[j].desc = "none" /\ DescriptionPrinted(d, j)

\* the string literal keys of the entries of the schema map literal itself
DirectNames(d) == {d.attrs[j].name : j \in {k \in DOMAIN d.attrs : d.attrs[k].form # "identKey"}}

\* the string literal keys anywhere in the schema, nested sub-schemas included
AllNames(d) ==
    DirectNames(d)
    \cup UNION {{d.attrs[j].nested[k] : k \in DOMAIN d.attrs[j].nested} : j \in DOMAIN d.attrs}

\* C6 as stated: a conflict target of an evaluated attribute produces a
\* violation exactly when it is absent from the names of the whole enclosing
\* schema, nested sub-schemas included.
C6_DanglingIffAbsentAnywhere ==
    \A d \in Checked : \A i \in DOMAIN d.attrs :
        Evaluated(d.attrs[i]) =>
            \A k \in DOMAIN d.attrs[i].conflicts :
                ConflictPrinted(d, i, d.attrs[i].conflicts[k])
                    <=> d.attrs[i].conflicts[k] \notin AllNames(d)

\* C6, for the names the collector gathers: a conflict target of an evaluated
\* attribute produces a violation, whose message names the target, exactly
\* when it is not the string literal key of an entry of the enclosing schema
\* map literal itself; attributes of nested sub-schemas do not count.
C6_DanglingIffNotDirectEntry ==
    \A d \in Checked : \A i \in DOMAIN d.attrs :
        Evaluated(d.attrs[i]) =>
            \A k \in DOMAIN d.attrs[i].conflicts :
                ConflictPrinted(d, i, d.attrs[i].conflicts[k])
                    <=> d.attrs[i].conflicts[k] \notin DirectNames(d)

C6_Witness ==
    \E d \in Checked : \E i \in DOMAIN d.attrs :
        /\ Evaluated(d.attrs[i])
        /\ \E k \in DOMAIN d.attrs[i].conflicts :
              /\ d.attrs[i].conflicts[k] \in DirectNames(d)
              /\ ~ConflictPrinted(d, i, d.attrs[i].conflicts[k])
        /\ \E k \in DOMAIN d.attrs[i].conflicts :
              /\ d.attrs[i].conflicts[k] \notin AllNames(d)
              /\ ConflictPrinted(d, i, d.attrs[i].conflicts[k])

-----------------------------------------------------------------------------
(* a run of doc-checker: the shape of the registration declaration *)

\* the registrations that are not one return of one address-of literal whose
\* catalog fields are map literals of string literal keys and call values
DeviatingShapes ==
    {"notAddressOf", "returnsIdent", "mapNotLiteral", "keyNotString", "valueNotCall",
     "multiValue"}

\* the run has ended before a fragment or a source file was read
Aborted ==
    /\ pc \in {"panic", "fatal"}
    /\ prov = None /\ docs = None
    /\ loaded = <<>> /\ walked = <<>> /\ log = <<>>

\* C11 as stated: every shape deviation of the registration declaration, a
\* return of more than one value included, is fatal for the run: no catalog is
\* used, no source file is checked, no violation is printed.
C11_DeviationIsFatal ==
    (providerGo.shape \in DeviatingShapes /\ pc # "start") => (pc = "usage" \/ Aborted)

\* C11, without the return of more than one value: the other deviations end
\* the run before a catalog is used, a source file checked or a violation
\* printed; of a return of more than one value the first value is read, and
\* the run goes on with the catalog registered there.
C11_DeviationIsFatalButMultiValue ==
    /\ (providerGo.shape \in DeviatingShapes \ {"multiValue"} /\ pc # "start")
           => (pc = "usage" \/ Aborted)
    /\ (providerGo.shape = "multiValue" /\ pc \notin {"start", "usage"})
           => prov = [datasources |-> providerGo.ds, resources |-> providerGo.res]

C11_Witness ==
    /\ providerGo.shape \in DeviatingShapes \ {"multiValue"}
    /\ Aborted

------------------------------------------------------------------------

-----------------------------------------------------------------------------
(* a run of doc-checker: the same trees traversed in another order *)

\* the orders in which a traversal can deliver n files
Orders(n) ==
    {g \in [1..n -> 1..n] : \A i, j \in 1..n : i # j => g[i] # g[j]}

\* the kind and canonical name a fragment is indexed under, None when it is not
KeyOf(d) ==
    IF ~candidate(d.path) THEN None
    ELSE LET c == classifyDoc(providerName, d.path, FragmentContent(d)) IN
         IF c.panic \/ c.err THEN None ELSE [t |-> c.t, n |-> c.n]

\* what the visit of each fragment there is writes into the index
FragmentWrites ==
    {[frag |-> d, key |-> KeyOf(d), content |-> FragmentContent(d)] : d \in RunFragments}

\* what the visits of the fragments frags write into the index
RECURSIVE Writes(_)
Writes(frags) ==
    IF frags = <<>> THEN <<>>
    ELSE <<CHOOSE w \in FragmentWrites : w.frag = Head(frags)>> \o Writes(Tail(frags))

\* the index after the writes ws made in the order g, from its i-th on
RECURSIVE IndexOf(_, _, _, _)
IndexOf(ws, g, i, d) ==
    IF i > Len(ws) THEN d
    ELSE LET w == ws[g[i]] IN
         IndexOf(ws, g, i + 1,
                 IF w.key = None THEN d
                 ELSE IF w.key.t = docTypeDatasource
                 THEN [d EXCEPT !.Datasources = Put(d.Datasources, w.key.n, w.content)]
                 ELSE [d EXCEPT !.Resources = Put(d.Resources, w.key.n, w.content)])

\* the lines the visit of each source file prints, the index being d
RECURSIVE LinesOf(_, _)
LinesOf(files, d) ==
    IF files = <<>> THEN <<>>
    ELSE <<IF eligible(Head(files).path)
           THEN verifyAttributes(SourceFile(Head(files), providerGo), prov, d).log
           ELSE <<>>>>
         \o LinesOf(Tail(files), d)

\* the log after the visits in the order g, from its i-th on
RECURSIVE LogOf(_, _, _)
LogOf(ls, g, i) == IF i > Len(ls) THEN <<>> ELSE ls[g[i]] \o LogOf(ls, g, i + 1)

\* what a diagnostic line shows
Shown(line) ==
    IF line.msg = "Missing"
    THEN [msg |-> line.msg, markup |-> line.markup, schemaName |-> line.schemaName]
    ELSE line

ViolationSet(lines) == {Shown(lines[i]) : i \in DOMAIN lines}

NoDuplicateKeys(ws) ==
    \A i, j \in DOMAIN ws : (i # j /\ ws[i].key # None) => ws[i].key # ws[j].key

\* the run over the same trees prints the same set of violations when the
\* fragments come in one of the orders gs and the source files in any order
SameViolations(ws, gs) ==
    \A d \in {IndexOf(ws, g, 1, EmptyDocumentation) : g \in gs} :
        LET ls == LinesOf(walked, d) IN
        \A h \in Orders(Len(walked)) : ViolationSet(LogOf(ls, h, 1)) = ViolationSet(log)

-----------------------------------------------------------------------------
(* a run of schema-checker: the three checks of one attribute *)

\* the checks an attribute fails
FailsMissingDescription(d, i) == d.attrs[i].desc = "none"
FailsReservedName(d, i) == d.attrs[i].name = "id"
FailsDanglingConflict(d, i) ==
    \E k \in DOMAIN d.attrs[i].conflicts : d.attrs[i].conflicts[k] \notin DirectNames(d)

FailedChecks(d, i) ==
    {c \in {"MissingDescription", "ReservedName", "DanglingConflict"} :
        \/ c = "MissingDescription" /\ FailsMissingDescription(d, i)
        \/ c = "ReservedName" /\ FailsReservedName(d, i)
        \/ c = "DanglingConflict" /\ FailsDanglingConflict(d, i)}

\* C13: every evaluated attribute that fails k of the three checks
\* MissingDescription, ReservedName and DanglingConflict has exactly k
\* violations printed, one by each check it fails, whatever the other checks
\* find.
C13_OneViolationPerFailedCheck ==
    \A d \in Checked : \A i \in DOMAIN d.attrs :
        Evaluated(d.attrs[i]) =>
            /\ Cardinality(PrintedAt(d, i)) = Cardinality(FailedChecks(d, i))
            /\ DescriptionPrinted(d, i) <=> FailsMissingDescription(d, i)
            /\ ReservedPrinted(d, i) <=> FailsReservedName(d, i)
            /\ (\E k \in PrintedAt(d, i) : Contains(sOut[k].msg, "conflict target "))
                   <=> FailsDanglingConflict(d, i)

\* the conflict targets of an attribute that are no direct entry of its schema
Dangling(d, i) ==
    {d.attrs[i].conflicts[k] : k \in DOMAIN d.attrs[i].conflicts} \ DirectNames(d)

\* the violations of DanglingConflict printed for an attribute
ConflictLines(d, i) ==
    {k \in PrintedAt(d, i) : Contains(sOut[k].msg, "conflict target ")}

\* C14: an evaluated attribute with one or more dangling conflict targets has
\* exactly one DanglingConflict violation printed, and the message of that
\* violation names every dangling target.
C14_OneViolationNamesAllTargets ==
    \A d \in Checked : \A i \in DOMAIN d.attrs :
        (Evaluated(d.attrs[i]) /\ Dangling(d, i) # {}) =>
            /\ Cardinality(ConflictLines(d, i)) = 1
            /\ \A t \in Dangling(d, i) : ConflictPrinted(d, i, t)

C14_Witness ==
    \E d \in Checked : \E i \in DOMAIN d.attrs :
        /\ Evaluated(d.attrs[i])
        /\ Cardinality(Dangling(d, i)) = 2
        /\ Cardinality(ConflictLines(d, i)) = 1
        /\ \A t \in Dangling(d, i) : ConflictPrinted(d, i, t)

-----------------------------------------------------------------------------
(* a run of doc-checker: fragments that cannot be classified *)

\* the fragment the step reads and what classifyDoc makes of it
Visited == loaded'[Len(loaded')]
VisitedClass == classifyDoc(providerName, Visited.path, FragmentContent(Visited))

\* C15: the visit of a fragment never ends the run: classifyDoc returns a
\* canonical name and a kind, or an error, also when the fragment has no marker
\* line, a malformed marker line, a marker value without keyword or an empty
\* suffix; on an error the index is left as it was and the walk goes on.
C15_ClassificationNeverFatal ==
    [][(pc = "docs" /\ loaded' # loaded /\ candidate(Visited.path)) =>
           /\ ~VisitedClass.panic
           /\ pc' = "docs"
           /\ VisitedClass.err => docs' = docs]_vars

-----------------------------------------------------------------------------
(* a run of doc-checker: identifier keys that do not resolve to a literal *)

\* the first key of the schema map literal is an identifier declared in no
\* declaration of the file, without initializer, or with a computed initializer
UnresolvedKeyShapes == {"keyUndeclared", "keyNoValue", "keyComputed"}

\* C16: a file whose constructor has an identifier key that does not resolve to
\* a literal of the same file leaves the run alive; no line is printed for that
\* attribute, and the remaining attributes of the schema are checked against
\* the fragment of the selected entry as those of any constructor are.
C16_UnresolvedKeySkipped ==
    \A j \in DOMAIN walked :
        walked[j].shape \in UnresolvedKeyShapes =>
            /\ pc \in {"walk", "done"}
            /\ \A t \in DocTypes : \A i \in DOMAIN Entries(t) :
                  (Documented(t, Entries(t)[i]) /\ walked[j].fn = Entries(t)[i].fnc
                   /\ Selected(t, i)) =>
                      /\ ~Reported(walked[j].attrs[1], t, Entries(t)[i], walked[j].fn)
                      /\ \A k \in 2..Len(walked[j].attrs) :
                            Reported(walked[j].attrs[k], t, Entries(t)[i], walked[j].fn)
                                <=> ~InFragment(walked[j].attrs[k], t, Entries(t)[i])

-----------------------------------------------------------------------------
(* a run of doc-checker: what ends it *)

\* the run has ended on the usage message, on a fatal error of the
\* registration declaration, or after the walk over the source files
Ended == pc \in {"usage", "fatal", "done"} \/ Aborted

\* C17: only a usage error or a fatal error of the provider registration
\* declaration halts a run: every other run gets to the end of its walk over
\* the source files, so that every eligible file of the walk is processed,
\* whatever the earlier files were.
C17_OnlyUsageOrFatalHalts == <>Ended

-----------------------------------------------------------------------------
(* the cross-reference check alone: functions that are no constructors *)

\* a catalog entry registers the function
Registered(fnc) ==
    \/ \E i \in DOMAIN vIn.prov.datasources : vIn.prov.datasources[i].fnc = fnc
    \/ \E i \in DOMAIN vIn.prov.resources : vIn.prov.resources[i].fnc = fnc

\* the lines printed for the attributes of a function
LinesFor(fnc) == SelectSeq(vRes.log, LAMBDA line : line.msg = "Missing" /\ line.fnc = fnc)

\* the function is passed over and the declarations after it are processed:
\* nothing is printed for it, and the attribute of the constructor declared
\* after it, which no fragment documents, is reported when it is registered
PassedOver ==
    /\ ~vRes.panic
    /\ LinesFor(vIn.file.fn) = <<>>
    /\ vIn.file.next # "" =>
          IF Registered(vIn.file.next)
          THEN /\ Len(vRes.log) = 1
               /\ vRes.log[1].msg = "Missing"
               /\ vRes.log[1].fnc = vIn.file.next
               /\ vRes.log[1].markup = Backtick \o NextAttribute \o Backtick
          ELSE vRes.log = <<>>

-----------------------------------------------------------------------------
(* the cross-reference check alone: a constructor registered more than once *)

\* the catalog entries registering fnc, in the order the loops of
\* verifyAttributes meet them: the datasources, then the resources
RECURSIVE Matching(_, _, _)
Matching(defs, t, fnc) ==
    IF defs = <<>> THEN <<>>
    ELSE (IF Head(defs).fnc = fnc THEN <<[t |-> t, name |-> Head(defs).name]>> ELSE <<>>)
         \o Matching(Tail(defs), t, fnc)

Candidates(fnc) ==
    Matching(vIn.prov.datasources, docTypeDatasource, fnc)
    \o Matching(vIn.prov.resources, docTypeResource, fnc)

\* the fragment indexed for an entry; empty when there is none
FragmentOf(m) ==
    Get(IF m.t = docTypeDatasource THEN vIn.docs.Datasources ELSE vIn.docs.Resources, m.name)

\* the attributes of the constructor are cross-referenced against the
\* fragment of the entry m: the lines printed for it name m, one for each
\* attribute whose markup the fragment does not hold
CheckedAgainst(m) ==
    /\ \A j \in DOMAIN LinesFor(vIn.file.fn) :
          /\ LinesFor(vIn.file.fn)[j].schemaName = m.name
          /\ LinesFor(vIn.file.fn)[j].schemaType = m.t
    /\ \A k \in DOMAIN vIn.file.attrs :
          (\E j \in DOMAIN LinesFor(vIn.file.fn) :
              LinesFor(vIn.file.fn)[j].markup = Backtick \o vIn.file.attrs[k] \o Backtick)
              <=> ~Contains(FragmentOf(m), Backtick \o vIn.file.attrs[k] \o Backtick)

\* C19 as stated: when several catalog entries register a constructor, its
\* attributes are cross-referenced against the fragment of the first of them.
C19_FirstMatchWins ==
    (vRes # None /\ vIn.file.shape = "ok" /\ Candidates(vIn.file.fn) # <<>>) =>
        CheckedAgainst(Candidates(vIn.file.fn)[1])

\* C19, for the entry the loops end on: when several catalog entries register a
\* constructor, its attributes are cross-referenced against the fragment of
\* the last of them, a resource entry coming after every datasource entry.
C19_LastMatchWins ==
    (vRes # None /\ vIn.file.shape = "ok" /\ Candidates(vIn.file.fn) # <<>>) =>
        CheckedAgainst(Candidates(vIn.file.fn)[Len(Candidates(vIn.file.fn))])

C19_Witness ==
    /\ vRes # None /\ vIn.file.shape = "ok"
    /\ Len(Candidates(vIn.file.fn)) = 2
    /\ CheckedAgainst(Candidates(vIn.file.fn)[2])
    /\ ~CheckedAgainst(Candidates(vIn.file.fn)[1])
    /\ FragmentOf(Candidates(vIn.file.fn)[1]) # ""
    /\ FragmentOf(Candidates(vIn.file.fn)[2]) # ""

-----------------------------------------------------------------------------
(* the cross-reference check alone: what of the returned literal is read *)

\* the lines printed for the function that name the attribute a
LinesNaming(a) ==
    {j \in DOMAIN LinesFor(vIn.file.fn) :
        LinesFor(vIn.file.fn)[j].markup = Backtick \o a \o Backtick}

\* C20: of the literal a constructor returns only the entries of the map under
\* Schema are cross-referenced: every line printed for the constructor names
\* one of these entries, each entry is named by at most one line, and the
\* attribute declared only in the sub-schema of an entry is named by none.
C20_OnlyDirectSchemaEntries ==
    (vRes # None /\ vIn.file.shape \in {"ok", "nested"}) =>
        /\ ~vRes.panic
        /\ \A j \in DOMAIN LinesFor(vIn.file.fn) :
              \E k \in DOMAIN vIn.file.attrs :
                  LinesFor(vIn.file.fn)[j].markup = Backtick \o vIn.file.attrs[k] \o Backtick
        /\ \A k \in DOMAIN vIn.file.attrs : Cardinality(LinesNaming(vIn.file.attrs[k])) <= 1
        /\ LinesNaming(NestedAttribute) = {}

C20_Witness ==
    /\ vRes # None /\ vIn.file.shape = "nested"
    /\ Registered(vIn.file.fn)
    /\ \A m \in {Candidates(vIn.file.fn)[i] : i \in DOMAIN Candidates(vIn.file.fn)} :
          ~Contains(FragmentOf(m), Backtick \o NestedAttribute \o Backtick)
    /\ \E k \in DOMAIN vIn.file.attrs : Cardinality(LinesNaming(vIn.file.attrs[k])) = 1
    /\ LinesNaming(NestedAttribute) = {}

-----------------------------------------------------------------------------
(* a run of doc-checker: two fragments of one kind and canonical name *)

\* of the writes ws, those made under a kind and name
Indexed(ws) == {i \in DOMAIN ws : ws[i].key # None}

\* no later write of ws is made under the key of the i-th
IsLast(ws, i) == \A k \in Indexed(ws) : ws[k].key = ws[i].key => k <= i

\* what the index holds under a key
Held(key) == Get(DocsOf(key.t), key.n)

\* C21: the index holds one fragment per kind and canonical name, the one
\* traversed last: a fragment traversed before it under the same kind and name
\* is dropped without a diagnostic, and every missing-in-docs line of that
\* entry names markup the last fragment does not hold.
C21_IndexKeepsLastFragment ==
    pc \in {"docs", "walk", "done"} =>
        LET ws == Writes(loaded) IN
        /\ \A i \in Indexed(ws) :
              IsLast(ws, i) =>
                  /\ ws[i].key.n \in DOMAIN DocsOf(ws[i].key.t)
                  /\ Held(ws[i].key) = ws[i].content
                  /\ \A j \in DOMAIN log :
                        (/\ log[j].msg = "Missing"
                         /\ log[j].schemaType = ws[i].key.t
                         /\ log[j].schemaName = ws[i].key.n) =>
                            ~Contains(ws[i].content, log[j].markup)
        /\ \A t \in DocTypes : \A n \in DOMAIN DocsOf(t) :
              \E i \in Indexed(ws) : ws[i].key = [t |-> t, n |-> n]
        /\ walked = <<>> => log = <<>>

C21_Witness ==
    LET ws == Writes(loaded) IN
    /\ pc = "done"
    /\ Len(loaded) = 2 /\ Indexed(ws) = {1, 2}
    /\ ws[1].key = ws[2].key
    /\ Held(ws[2].key) = ws[2].content
    /\ \E j \in DOMAIN log :
          /\ log[j].msg = "Missing"
          /\ log[j].schemaType = ws[2].key.t
          /\ log[j].schemaName = ws[2].key.n
          /\ Contains(ws[1].content, log[j].markup)
          /\ ~Contains(ws[2].content, log[j].markup)

-----------------------------------------------------------------------------
(* a run of schema-checker: the entries the rule engine leaves alone *)

\* the violations printed for the j-th attribute of the sub-schema of the i-th
PrintedAtNested(d, i, j) ==
    {k \in DOMAIN sOut : /\ sOut[k].file = Replace(d.path, providerPath, "")
                         /\ sOut[k].line = NestedLineOf(i, j)}

-----------------------------------------------------------------------------
(* a run of doc-checker: a registration declaration without a return to read *)

\* provider.go has no function Provider, or Provider has no return statement
\* among the statements of its body
NoReturnShapes == {"noProvider", "nestedReturn"}

EmptyCatalogStopsNoSourceFile ==
    /\ (providerGo.shape \in NoReturnShapes /\ pc \notin {"start", "usage"}) =>
           /\ pc \in {"docs", "walk", "done", "panic"}
           /\ pc = "panic" => walked = <<>>
           /\ prov = EmptyProvider
           /\ \A j \in DOMAIN log : log[j].msg # "Missing"
    /\ (providerGo.shape = "twoReturns" /\ pc \notin {"start", "usage"}) =>
           prov = [datasources |-> providerGo.ds \o providerGo.ds,
                   resources |-> providerGo.res \o providerGo.res]

=============================================================================
